---- MODULE Spec2Model ----
(***************************************************************************)
(* Model of the WeChat Pay platform-certificate store (PlatformCerts),     *)
(* the notification handler (WechatNotify::verify_and_decrypt) and the     *)
(* retry helper (retry_async) of rust-pay-wf.                              *)
(*                                                                         *)
(* Tasks are async tasks of the process.  Every await point of the code    *)
(* and every blocking point (Mutex::lock, thread::sleep) is a boundary     *)
(* between two actions; code between two such points is one action.        *)
(***************************************************************************)
EXTENDS Integers, Sequences, FiniteSets, TLC

(*************************** bounds of the model ***************************)
\* longest "data" array of a gateway response
MaxEntries == 2
\* largest max_attempts handed to retry_async in SpecRetry
MaxAttempts == 8
\* width of usize in the model (the wrapped counter must stay enumerable)
UsizeBits == 4

Tasks == {"t1", "t2"}
NoTask == "-"

(****************************** data values ******************************)
\* JSON field that is missing
Absent == "<absent>"
\* JSON value that is present but is not a string (as_str() gives None)
NonStr == "<nonstr>"

Keys == {"K1", "K2"}
Serials == {"S1", "S2"}

EmptyMap == [k \in {} |-> "K1"]

Put(m, k, v) == [x \in (DOMAIN m) \cup {k} |-> IF x = k THEN v ELSE m[x]]

\* an encrypted resource {ciphertext, nonce, associated_data}: whether the
\* nonce string is 12 bytes long, and what the ciphertext is
Resource(n12, c) == [nonce12 |-> n12, ct |-> c]

Entry(s, he, r) == [serial_no |-> s, has_enc |-> he, enc |-> r]

\* the certificate entries a gateway response is built from
Entries ==
    { Entry("S1", TRUE, Resource(TRUE, "certK1")),
      Entry("S1", TRUE, Resource(TRUE, "certK2")),
      Entry("S2", TRUE, Resource(TRUE, "certK1")),
      Entry(NonStr, TRUE, Resource(TRUE, "certK1")),
      Entry(Absent, TRUE, Resource(TRUE, "certK1")),
      Entry("S1", FALSE, Resource(TRUE, "")),
      Entry("S1", TRUE, Resource(FALSE, "certK1")),
      Entry("S2", TRUE, Resource(TRUE, "badtag")),
      Entry("S2", TRUE, Resource(TRUE, "notcert")) }

\* what serde_json makes of a response body: not JSON, JSON without a
\* "data" array, JSON with a "data" array
BodyShapes == {"badjson", "nodata", "data"}

Result(k, v) == [kind |-> k, val |-> v]
NoResult == Result("none", "")

(************************** program constants *****************************)
\* let mut delay = 200u64
InitialDelay == 200
\* std::cmp::min(delay * 2, 5000)
MaxDelay == 5000
\* retry_async(3, ..) in refresh
RefreshAttempts == 3

(************************** pure functions ********************************)
Min(a, b) == IF a < b THEN a ELSE b

Modulus == 2 ^ UsizeBits

\* usize subtraction of a release build: wraps around
WrappingDec(a) == (a + Modulus - 1) % Modulus

\* utils.rs aes_gcm_decrypt: key length, nonce slice, base64, AEAD tag
aes_gcm_decrypt(key32, r) ==
    IF ~key32 THEN Result("Err", "key")
    ELSE IF ~r.nonce12 THEN Result("Panic", "nonce")
    ELSE IF r.ct = "bad64" THEN Result("Err", "base64")
    ELSE IF r.ct \in {"", "badtag"} THEN Result("Err", "aead")
    ELSE Result("Ok", r.ct)

\* utils.rs extract_pubkey_from_cert
extract_pubkey_from_cert(pem) ==
    IF pem = "certK1" THEN Result("Ok", "K1")
    ELSE IF pem = "certK2" THEN Result("Ok", "K2")
    ELSE Result("Err", "x509")

\* serial.as_str().unwrap_or_default()
SerialKey(s) == IF s = NonStr THEN "" ELSE s

\* HashMap::get(..).cloned()
Lookup(m, s) == IF s \in DOMAIN m THEN Result("Some", m[s]) ELSE Result("None", "")

(********************* signing and verifying (utils.rs) *******************)
\* private keys as configured: two RSA keys and a text that is no key
PrivKeys == {"P1", "P2", "notakey"}

\* the public key that belongs to a private key
PubOf(priv) == IF priv = "P1" THEN "K1" ELSE IF priv = "P2" THEN "K2" ELSE "none"

\* the base64 text of the RSA-SHA256 signature that the owner of public
\* key pub makes over data
SigText(pub, data) == "sig:" \o pub \o ":" \o data

\* a signature text that is not base64, and one that is base64 of bytes
\* that are no signature of anything
NotBase64 == "!"
JunkSig == "AAAA"

\* rsa_sign_sha256_pem as it would be with the signer fed the key text
\* in place of data
rsa_sign_wrong_bytes(priv, data) ==
    IF PubOf(priv) \notin Keys THEN Result("Err", "key")
    ELSE Result("Ok", SigText(PubOf(priv), priv))

\* utils.rs rsa_sign_sha256_pem: parse the key, sign the bytes of data,
\* encode
rsa_sign(priv, data) ==
    IF PubOf(priv) \notin Keys THEN Result("Err", "key")
    ELSE Result("Ok", SigText(PubOf(priv), data))

\* rsa_verify_sha256_pem as it would be with a mismatch reported the way a
\* failure of the library is
rsa_verify_mismatch_is_error(pub, data, sig) ==
    IF pub \notin Keys THEN Result("Err", "key")
    ELSE IF sig = NotBase64 THEN Result("Err", "base64")
    ELSE IF sig = SigText(pub, data) THEN Result("Ok", "true")
    ELSE Result("Err", "verify")

\* utils.rs rsa_verify_sha256_pem: parse the key, decode the signature,
\* Verifier::verify gives true or false
rsa_verify(pub, data, sig) ==
    IF pub \notin Keys THEN Result("Err", "key")
    ELSE IF sig = NotBase64 THEN Result("Err", "base64")
    ELSE IF sig = SigText(pub, data) THEN Result("Ok", "true")
    ELSE Result("Ok", "false")

(************************ decrypting (utils.rs) ***************************)
\* api_v3_key values: two keys of 32 bytes and one of 16
CipherKeys == {"k32a", "k32b", "k16"}
KeyLen(k) == IF k = "k16" THEN 16 ELSE 32

\* nonce strings: two of 12 bytes and one of 2
Nonces == {"n12a", "n12b", "n1"}
NonceLen(n) == IF n = "n1" THEN 2 ELSE 12

AssociatedData == {"certificate", "transaction"}

\* what was encrypted: text, and bytes that are not UTF-8
Plains == {"plain", "notutf8"}

\* the base64 text of the AES-256-GCM ciphertext and tag of plain under
\* key, nonce and associated data
Sealed(key, ad, nonce, plain) ==
    "gcm:" \o key \o ":" \o ad \o ":" \o nonce \o ":" \o plain

\* a base64 text that differs from ct in one byte
AlteredCt(ct) == ct \o "~"

\* utils.rs aes_gcm_decrypt on its four string arguments
aes_gcm_decrypt_text(api_v3_key, associated_data, nonce, ciphertext_b64) ==
    IF KeyLen(api_v3_key) # 32 THEN Result("Err", "key")
    ELSE IF NonceLen(nonce) # 12 THEN Result("Panic", "nonce")
    ELSE IF ciphertext_b64 = NotBase64 THEN Result("Err", "base64")
    ELSE IF \E plain \in Plains :
                ciphertext_b64 = Sealed(api_v3_key, associated_data, nonce, plain)
    THEN LET plain == CHOOSE x \in Plains :
                 ciphertext_b64 = Sealed(api_v3_key, associated_data, nonce, x)
         IN  IF plain = "notutf8" THEN Result("Err", "utf8") ELSE Result("Ok", plain)
    ELSE Result("Err", "aead")

(******************************* state ************************************)
VARIABLES
    cfg,          \* WechatConfig: is api_v3_key 32 bytes, does private_key_pem parse
    map,          \* PlatformCerts.map: the HashMap inside the Mutex
    holder,       \* the task holding the MutexGuard, or NoTask
    poisoned,     \* the Mutex is poisoned (a holder panicked)
    torn,         \* history: the table is neither a completely built table
                  \* nor the table an abandoned refresh found
    pc,           \* where each task is
    op,           \* the operation each task runs
    res,          \* the value the task's operation returned
    rt,           \* locals of retry_async per task
    rf,           \* locals of refresh per task
    vf,           \* locals of verify_and_decrypt per task
    arg           \* the serial the task's operation was called with

vars == <<cfg, map, holder, poisoned, torn, pc, op, res, rt, rf, vf, arg>>

store == <<map, holder, poisoned, torn>>

\* calls counts the invocations of f, waits lists the sleeps made; okAt and
\* errAt name the invocation whose value or error is being returned, errs
\* lists the errors of the invocations that failed
NoRetry == [attempts |-> 0, delay |-> 0, calls |-> 0, waits |-> <<>>,
            max |-> 0, out |-> NoResult, okAt |-> 0, errAt |-> 0, errs |-> <<>>]
\* seen: the entries of arr the loop has iterated over so far
NoRefresh == [seen |-> <<>>, before |-> EmptyMap, tornBefore |-> FALSE,
              ret |-> NoResult]
\* lookups, refreshes, parses, decrypts count the calls the handler made;
\* sig and body are the signature header and the body it was given
\* first is what the first lookup gave, pub_pem what the latest one gave
NoVerify == [lookups |-> 0, refreshes |-> 0, first |-> "none",
             pub_pem |-> NoResult, sig |-> "",
             ok |-> "none", body |-> "none", parses |-> 0, decrypts |-> 0]

Init ==
    /\ cfg \in [key32 : BOOLEAN, privOk : BOOLEAN]
    /\ map = EmptyMap
    /\ holder = NoTask
    /\ poisoned = FALSE
    /\ torn = FALSE
    /\ pc = [t \in Tasks |-> "idle"]
    /\ op = [t \in Tasks |-> "none"]
    /\ res = [t \in Tasks |-> NoResult]
    /\ rt = [t \in Tasks |-> NoRetry]
    /\ rf = [t \in Tasks |-> NoRefresh]
    /\ vf = [t \in Tasks |-> NoVerify]
    /\ arg = [t \in Tasks |-> ""]

(****************************** retry_async *******************************)
\* let mut delay = 200u64; loop { match f().await ...: the first invocation
\* of f happens before any check of attempts
retry_enter(n) ==
    [attempts |-> n, delay |-> InitialDelay, calls |-> 1, waits |-> <<>>,
     max |-> n, out |-> NoResult, okAt |-> 0, errAt |-> 0, errs |-> <<>>]

\* retry_async as it would be with the test of attempts placed before the
\* decrement: one invocation more than max_attempts
RetryReplyLateCheck(t) ==
    /\ pc[t] = "r_await"
    /\ \E ok \in BOOLEAN :
        LET r == rt[t] IN
        IF ok
        THEN /\ rt' = [rt EXCEPT ![t].out = Result("Ok", "value"),
                                 ![t].okAt = r.calls]
             /\ pc' = [pc EXCEPT ![t] = "r_ret"]
        ELSE IF r.attempts = 0
        THEN /\ rt' = [rt EXCEPT ![t].out = Result("Err", "transport"),
                                 ![t].errAt = r.calls]
             /\ pc' = [pc EXCEPT ![t] = "r_ret"]
        ELSE /\ rt' = [rt EXCEPT ![t].attempts = WrappingDec(r.attempts),
                                 ![t].waits = Append(@, r.delay)]
             /\ pc' = [pc EXCEPT ![t] = "r_sleep"]
    /\ UNCHANGED <<cfg, store, op, res, rf, vf, arg>>

\* the operation's future resolves: Ok(v) => return Ok(v); Err(e) =>
\* attempts -= 1; if attempts == 0 { return Err(e) }; sleep(delay)
\* retry_async as it would be with the sleep made after every invocation,
\* a successful one included
RetryReplySleepFirst(t) ==
    /\ pc[t] = "r_await"
    /\ \E ok \in BOOLEAN :
        LET r == rt[t]
            a == WrappingDec(r.attempts)
        IN  IF ok
            THEN /\ rt' = [rt EXCEPT ![t].out = Result("Ok", "value"),
                                     ![t].okAt = r.calls,
                                     ![t].waits = Append(@, r.delay)]
                 /\ pc' = [pc EXCEPT ![t] = "r_ret"]
            ELSE IF a = 0
            THEN /\ rt' = [rt EXCEPT ![t].attempts = a,
                                     ![t].out = Result("Err", "transport"),
                                     ![t].errAt = r.calls,
                                     ![t].errs = Append(@, "transport")]
                 /\ pc' = [pc EXCEPT ![t] = "r_ret"]
            ELSE /\ rt' = [rt EXCEPT ![t].attempts = a,
                                     ![t].waits = Append(@, r.delay),
                                     ![t].errs = Append(@, "transport")]
                 /\ pc' = [pc EXCEPT ![t] = "r_sleep"]
    /\ UNCHANGED <<cfg, store, op, res, rf, vf, arg>>

RetryReply(t) ==
    /\ pc[t] = "r_await"
    /\ \E ok \in BOOLEAN, wraps \in BOOLEAN :
        LET r == rt[t] IN
        IF ok
        THEN /\ rt' = [rt EXCEPT ![t].out = Result("Ok", "value"),
                                 ![t].okAt = r.calls]
             /\ pc' = [pc EXCEPT ![t] = "r_ret"]
        ELSE IF r.attempts = 0 /\ ~wraps
        THEN \* overflow checks on: attempts -= 1 panics
             /\ rt' = [rt EXCEPT ![t].out = Result("Panic", "overflow"),
                                 ![t].errs = Append(@, "transport")]
             /\ pc' = [pc EXCEPT ![t] = "r_ret"]
        ELSE LET a == WrappingDec(r.attempts) IN
             IF a = 0
             THEN /\ rt' = [rt EXCEPT ![t].attempts = a,
                                      ![t].out = Result("Err", "transport"),
                                      ![t].errAt = r.calls,
                                      ![t].errs = Append(@, "transport")]
                  /\ pc' = [pc EXCEPT ![t] = "r_ret"]
             ELSE /\ rt' = [rt EXCEPT ![t].attempts = a,
                                      ![t].waits = Append(@, r.delay),
                                      ![t].errs = Append(@, "transport")]
                  /\ pc' = [pc EXCEPT ![t] = "r_sleep"]
    /\ UNCHANGED <<cfg, store, op, res, rf, vf, arg>>

\* retry_async as it would be without the ceiling: delay = delay * 2
RetryWakeUncapped(t) ==
    /\ pc[t] = "r_sleep"
    /\ rt' = [rt EXCEPT ![t].delay = @ * 2, ![t].calls = @ + 1]
    /\ pc' = [pc EXCEPT ![t] = "r_await"]
    /\ UNCHANGED <<cfg, store, op, res, rf, vf, arg>>

\* sleep returns: delay = min(delay * 2, 5000); the loop invokes f again
RetryWake(t) ==
    /\ pc[t] = "r_sleep"
    /\ rt' = [rt EXCEPT ![t].delay = Min(@ * 2, MaxDelay), ![t].calls = @ + 1]
    /\ pc' = [pc EXCEPT ![t] = "r_await"]
    /\ UNCHANGED <<cfg, store, op, res, rf, vf, arg>>

(************************ a bare retry_async call *************************)
RetryStart(t) ==
    /\ pc[t] = "idle"
    /\ \E n \in 0..MaxAttempts :
        rt' = [rt EXCEPT ![t] = retry_enter(n)]
    /\ op' = [op EXCEPT ![t] = "retry"]
    /\ pc' = [pc EXCEPT ![t] = "r_await"]
    /\ UNCHANGED <<cfg, store, res, rf, vf, arg>>

RetryReturn(t) ==
    /\ pc[t] = "r_ret"
    /\ op[t] = "retry"
    /\ res' = [res EXCEPT ![t] = rt[t].out]
    /\ pc' = [pc EXCEPT ![t] = "done"]
    /\ UNCHANGED <<cfg, store, op, rt, rf, vf, arg>>

\* the caller drops the result and the task is free for its next call
Finish(t) ==
    /\ pc[t] = "done"
    /\ pc' = [pc EXCEPT ![t] = "idle"]
    /\ op' = [op EXCEPT ![t] = "none"]
    /\ res' = [res EXCEPT ![t] = NoResult]
    /\ rt' = [rt EXCEPT ![t] = NoRetry]
    /\ rf' = [rf EXCEPT ![t] = NoRefresh]
    /\ vf' = [vf EXCEPT ![t] = NoVerify]
    /\ arg' = [arg EXCEPT ![t] = ""]
    /\ UNCHANGED <<cfg, store>>

InitRetry ==
    /\ Init
    /\ cfg = [key32 |-> TRUE, privOk |-> TRUE]

NextRetry ==
    \E t \in Tasks :
        \/ RetryStart(t)
        \/ RetryReply(t)
        \/ RetryWake(t)
        \/ RetryReturn(t)
        \/ Finish(t)

SpecRetry == InitRetry /\ [][NextRetry]_vars

(************************* PlatformCerts::refresh *************************)
\* utils.rs rsa_sign_sha256_pem: fails when the private key does not parse
rsa_sign_sha256_pem(privOk) ==
    IF privOk THEN Result("Ok", "sig") ELSE Result("Err", "sign")

\* refresh returns r to its caller: to the task's caller when the task runs
\* refresh itself, into verify_and_decrypt when the handler called it
\*   if let Err(e) = self.certs.refresh().await { return Err(Crypto(..)) }
\* The locals of refresh are dropped.
RefreshRet(t, r) ==
    /\ rf' = [rf EXCEPT ![t] = [NoRefresh EXCEPT !.ret = r]]
    /\ IF op[t] = "refresh"
       THEN /\ pc' = [pc EXCEPT ![t] = "done"]
            /\ res' = [res EXCEPT ![t] = r]
       ELSE IF r.kind = "Ok"
       THEN /\ pc' = [pc EXCEPT ![t] = "v_get2"]
            /\ res' = res
       ELSE /\ pc' = [pc EXCEPT ![t] = "done"]
            /\ res' = [res EXCEPT ![t] =
                          IF r.kind = "Err" THEN Result("Err", "refresh") ELSE r]

\* refresh as it would be with the table locked for the whole call:
\* the guard is held across the request and its backoff sleeps
RefreshStartLocking(t) ==
    /\ pc[t] = "idle"
    /\ holder = NoTask
    /\ holder' = t
    /\ op' = [op EXCEPT ![t] = "refresh"]
    /\ rt' = [rt EXCEPT ![t] = retry_enter(RefreshAttempts)]
    /\ pc' = [pc EXCEPT ![t] = "r_await"]
    /\ UNCHANGED <<cfg, map, poisoned, torn, res, rf, vf, arg>>

\* lines 24-41: build and sign the request, enter retry_async(3, ..)
RefreshStart(t) ==
    /\ pc[t] = "idle"
    /\ op' = [op EXCEPT ![t] = "refresh"]
    /\ IF rsa_sign_sha256_pem(cfg.privOk).kind = "Ok"
       THEN /\ rt' = [rt EXCEPT ![t] = retry_enter(RefreshAttempts)]
            /\ pc' = [pc EXCEPT ![t] = "r_await"]
            /\ UNCHANGED <<res, rf>>
       ELSE /\ rf' = [rf EXCEPT ![t].ret = Result("Err", "sign")]
            /\ pc' = [pc EXCEPT ![t] = "done"]
            /\ res' = [res EXCEPT ![t] = Result("Err", "sign")]
            /\ rt' = rt
    /\ UNCHANGED <<cfg, store, vf, arg>>

\* lines 51-54: retry_async returned; parse the body, look for "data"
RefreshParse(t) ==
    /\ pc[t] = "r_ret"
    /\ op[t] \in {"refresh", "verify"}
    /\ rt' = [rt EXCEPT ![t] = NoRetry]
    /\ IF rt[t].out.kind # "Ok"
       THEN RefreshRet(t, rt[t].out)
       ELSE \E b \in BodyShapes :
            IF b = "badjson" THEN RefreshRet(t, Result("Err", "json"))
            ELSE IF b = "nodata" THEN RefreshRet(t, Result("Ok", "nodata"))
            ELSE /\ pc' = [pc EXCEPT ![t] = "rf_lock"]
                 /\ UNCHANGED <<res, rf>>
    /\ UNCHANGED <<cfg, store, op, vf, arg>>

\* lines 55-56: let mut m = self.map.lock().unwrap(); m.clear();
RefreshLock(t) ==
    /\ pc[t] = "rf_lock"
    /\ holder = NoTask
    /\ IF poisoned
       THEN /\ RefreshRet(t, Result("Panic", "poisoned"))
            /\ UNCHANGED <<map, holder>>
            /\ torn' = torn
       ELSE /\ holder' = t
            /\ map' = EmptyMap
            /\ torn' = TRUE
            /\ rf' = [rf EXCEPT ![t].before = map, ![t].tornBefore = torn]
            /\ pc' = [pc EXCEPT ![t] = "rf_loop"]
            /\ res' = res
    /\ UNCHANGED <<cfg, poisoned, op, rt, vf, arg>>

\* history: a refresh that gives up leaves the table torn unless the table
\* is the one it found (and that one was not torn)
Abandoned(t) == rf[t].tornBefore \/ map # rf[t].before

\* lines 57-75: one iteration of for cert in arr, on the next entry e
RefreshEntry(t) ==
    /\ pc[t] = "rf_loop"
    /\ holder = t
    /\ Len(rf[t].seen) < MaxEntries
    /\ \E e \in Entries :
       LET d == aes_gcm_decrypt(cfg.key32, e.enc)
           p == extract_pubkey_from_cert(d.val)
       IN  IF e.serial_no = Absent \/ ~e.has_enc
           THEN /\ rf' = [rf EXCEPT ![t].seen = Append(@, e)]
                /\ UNCHANGED <<map, holder, poisoned, torn, pc, res>>
           ELSE IF d.kind = "Panic"
           THEN \* the guard is dropped while unwinding: the lock is poisoned
                /\ RefreshRet(t, d)
                /\ holder' = NoTask
                /\ poisoned' = TRUE
                /\ UNCHANGED <<map, torn>>
           ELSE IF d.kind = "Err"
           THEN /\ RefreshRet(t, Result("Err", "decrypt"))
                /\ holder' = NoTask
                /\ torn' = Abandoned(t)
                /\ UNCHANGED <<map, poisoned>>
           ELSE IF p.kind = "Err"
           THEN /\ RefreshRet(t, Result("Err", "pubkey"))
                /\ holder' = NoTask
                /\ torn' = Abandoned(t)
                /\ UNCHANGED <<map, poisoned>>
           ELSE /\ map' = Put(map, SerialKey(e.serial_no), p.val)
                /\ rf' = [rf EXCEPT ![t].seen = Append(@, e)]
                /\ UNCHANGED <<holder, poisoned, torn, pc, res>>
    /\ UNCHANGED <<cfg, op, rt, vf, arg>>

\* lines 75-77: arr has no further entry, the guard is dropped, Ok(())
RefreshUnlock(t) ==
    /\ pc[t] = "rf_loop"
    /\ holder = t
    /\ holder' = NoTask
    /\ torn' = FALSE
    /\ RefreshRet(t, Result("Ok", "data"))
    /\ UNCHANGED <<cfg, map, poisoned, op, rt, vf, arg>>

(*********************** PlatformCerts::get_by_serial *********************)
\* the serials a caller asks for; "" is what a missing header reads as
AskSerials == Serials \cup {""}

\* lines 79-82: lock, look up, clone, unlock
get_by_serial(t, s) ==
    /\ holder = NoTask
    /\ arg' = [arg EXCEPT ![t] = s]
    /\ IF poisoned
       THEN res' = [res EXCEPT ![t] = Result("Panic", "poisoned")]
       ELSE res' = [res EXCEPT ![t] = Lookup(map, s)]

GetBySerial(t) ==
    /\ pc[t] = "idle"
    /\ \E s \in AskSerials : get_by_serial(t, s)
    /\ op' = [op EXCEPT ![t] = "get"]
    /\ pc' = [pc EXCEPT ![t] = "done"]
    /\ UNCHANGED <<cfg, store, rt, rf, vf>>

(******************* WechatNotify::verify_and_decrypt *********************)
\* the wechatpay-signature header: not base64, or a well-formed signature
\* made over this message with the private key of K1, of K2, or one that
\* is neither (another key, or a message that differs from this one)
Signatures == {"bad64", "sigK1", "sigK2", "sigX"}

\* line 37: the message the handler builds from timestamp, nonce and body
NoticeMsg == "ts\nnonce\nbody\n"

\* the text of the signature header
HeaderSig(sig) ==
    IF sig = "bad64" THEN NotBase64
    ELSE IF sig = "sigK1" THEN SigText("K1", NoticeMsg)
    ELSE IF sig = "sigK2" THEN SigText("K2", NoticeMsg)
    ELSE SigText("K1", "ts\nnonce\nbodx\n")

SigOf(k) == IF k = "K1" THEN "sigK1" ELSE IF k = "K2" THEN "sigK2" ELSE "sig?"

\* line 58: rsa_verify_sha256_pem(&pub_pem, &msg, signature)
rsa_verify_sha256_pem(pub, sig) == rsa_verify(pub, NoticeMsg, HeaderSig(sig))

\* the notification bodies: not JSON; JSON without "resource"; JSON whose
\* resource decrypts to JSON, decrypts to something else, fails the tag
\* check, is not base64, or carries a nonce that is not 12 bytes long
Notices == {"badjson", "plain", "res_json", "res_notjson", "res_badtag",
            "res_bad64", "res_badnonce"}

\* serde_json::from_str(body) succeeds
IsJson(b) == b # "badjson"

\* v.get("resource") is Some
HasResource(b) == b \notin {"badjson", "plain"}

\* the resource object of the body
ResourceOf(b) ==
    IF b = "res_json" THEN Resource(TRUE, "json")
    ELSE IF b = "res_notjson" THEN Resource(TRUE, "notjson")
    ELSE IF b = "res_badtag" THEN Resource(TRUE, "badtag")
    ELSE IF b = "res_bad64" THEN Resource(TRUE, "bad64")
    ELSE Resource(FALSE, "json")

VerifyDone(t, r) ==
    /\ pc' = [pc EXCEPT ![t] = "done"]
    /\ res' = [res EXCEPT ![t] = r]

\* lines 21-47: read the headers, first lookup; on a miss call refresh
VerifyStart(t) ==
    /\ pc[t] = "idle"
    /\ holder = NoTask
    /\ op' = [op EXCEPT ![t] = "verify"]
    /\ \E s \in AskSerials :
        /\ arg' = [arg EXCEPT ![t] = s]
        /\ IF poisoned
           THEN /\ VerifyDone(t, Result("Panic", "poisoned"))
                /\ vf' = [vf EXCEPT ![t].lookups = 1, ![t].first = "Panic",
                                    ![t].pub_pem = Result("Panic", "poisoned")]
                /\ UNCHANGED <<rt, rf>>
           ELSE LET r == Lookup(map, s) IN
                /\ IF r.kind = "Some"
                   THEN /\ vf' = [vf EXCEPT ![t].lookups = 1, ![t].first = r.kind,
                                            ![t].pub_pem = r]
                        /\ pc' = [pc EXCEPT ![t] = "v_check"]
                        /\ UNCHANGED <<res, rt, rf>>
                   ELSE /\ vf' = [vf EXCEPT ![t].lookups = 1, ![t].first = r.kind,
                                            ![t].pub_pem = r,
                                            ![t].refreshes = @ + 1]
                        /\ IF rsa_sign_sha256_pem(cfg.privOk).kind = "Ok"
                           THEN /\ rt' = [rt EXCEPT ![t] = retry_enter(RefreshAttempts)]
                                /\ pc' = [pc EXCEPT ![t] = "r_await"]
                                /\ UNCHANGED <<res, rf>>
                           ELSE /\ rf' = [rf EXCEPT ![t].ret = Result("Err", "sign")]
                                /\ VerifyDone(t, Result("Err", "refresh"))
                                /\ rt' = rt
    /\ UNCHANGED <<cfg, store>>

\* the handler as it would be with a loop around lookup and refresh:
\* a second miss calls refresh again
VerifyLookup2Retrying(t) ==
    /\ pc[t] = "v_get2"
    /\ holder = NoTask
    /\ IF poisoned
       THEN /\ VerifyDone(t, Result("Panic", "poisoned"))
            /\ vf' = [vf EXCEPT ![t].lookups = @ + 1,
                                ![t].pub_pem = Result("Panic", "poisoned")]
            /\ UNCHANGED <<rt, rf>>
       ELSE IF Lookup(map, arg[t]).kind = "Some"
       THEN /\ vf' = [vf EXCEPT ![t].lookups = @ + 1,
                                ![t].pub_pem = Lookup(map, arg[t])]
            /\ pc' = [pc EXCEPT ![t] = "v_check"]
            /\ UNCHANGED <<res, rt, rf>>
       ELSE /\ vf' = [vf EXCEPT ![t].lookups = @ + 1,
                                ![t].pub_pem = Lookup(map, arg[t]),
                                ![t].refreshes = @ + 1]
            /\ rt' = [rt EXCEPT ![t] = retry_enter(RefreshAttempts)]
            /\ rf' = [rf EXCEPT ![t] = NoRefresh]
            /\ pc' = [pc EXCEPT ![t] = "r_await"]
            /\ res' = res
    /\ UNCHANGED <<cfg, store, op, arg>>

\* line 46: pub_pem = self.certs.get_by_serial(serial) after the refresh
VerifyLookup2(t) ==
    /\ pc[t] = "v_get2"
    /\ holder = NoTask
    /\ IF poisoned
       THEN /\ VerifyDone(t, Result("Panic", "poisoned"))
            /\ vf' = [vf EXCEPT ![t].lookups = @ + 1,
                                ![t].pub_pem = Result("Panic", "poisoned")]
       ELSE /\ vf' = [vf EXCEPT ![t].lookups = @ + 1,
                                ![t].pub_pem = Lookup(map, arg[t])]
            /\ pc' = [pc EXCEPT ![t] = "v_check"]
            /\ res' = res
    /\ UNCHANGED <<cfg, store, op, rt, rf, arg>>

\* the handler as it would be without "if !ok { return Err(..) }"
VerifyCheckUnchecked(t) ==
    /\ pc[t] = "v_check"
    /\ LET k == vf[t].pub_pem IN
       IF k.kind # "Some"
       THEN /\ VerifyDone(t, Result("Err", "notfound"))
            /\ vf' = vf
       ELSE IF k.val = ""
       THEN /\ VerifyDone(t, Result("Err", "emptykey"))
            /\ vf' = vf
       ELSE \E sig \in Signatures :
            LET v == rsa_verify_sha256_pem(k.val, sig) IN
            IF v.kind = "Err"
            THEN /\ VerifyDone(t, Result("Err", "crypto"))
                 /\ vf' = [vf EXCEPT ![t].sig = sig, ![t].ok = "err"]
            ELSE /\ vf' = [vf EXCEPT ![t].sig = sig, ![t].ok = v.val]
                 /\ pc' = [pc EXCEPT ![t] = "v_body"]
                 /\ res' = res
    /\ UNCHANGED <<cfg, store, op, rt, rf, arg>>

\* lines 49-64: the key must exist and be non-empty; verify the signature
VerifyCheck(t) ==
    /\ pc[t] = "v_check"
    /\ LET k == vf[t].pub_pem IN
       IF k.kind # "Some"
       THEN /\ VerifyDone(t, Result("Err", "notfound"))
            /\ vf' = vf
       ELSE IF k.val = ""
       THEN /\ VerifyDone(t, Result("Err", "emptykey"))
            /\ vf' = vf
       ELSE \E sig \in Signatures :
            LET v == rsa_verify_sha256_pem(k.val, sig) IN
            IF v.kind = "Err"
            THEN /\ VerifyDone(t, Result("Err", "crypto"))
                 /\ vf' = [vf EXCEPT ![t].sig = sig, ![t].ok = "err"]
            ELSE IF v.val = "false"
            THEN /\ VerifyDone(t, Result("Err", "badsig"))
                 /\ vf' = [vf EXCEPT ![t].sig = sig, ![t].ok = "false"]
            ELSE /\ vf' = [vf EXCEPT ![t].sig = sig, ![t].ok = "true"]
                 /\ pc' = [pc EXCEPT ![t] = "v_body"]
                 /\ res' = res
    /\ UNCHANGED <<cfg, store, op, rt, rf, arg>>

\* lines 65-82: parse the body, decrypt the resource, parse the plaintext
VerifyBody(t) ==
    /\ pc[t] = "v_body"
    /\ \E b \in Notices :
        LET d == aes_gcm_decrypt(cfg.key32, ResourceOf(b)) IN
        IF ~IsJson(b)
        THEN /\ VerifyDone(t, Result("Err", "json"))
             /\ vf' = [vf EXCEPT ![t].body = b, ![t].parses = @ + 1]
        ELSE IF ~HasResource(b)
        THEN /\ VerifyDone(t, Result("Ok", "body"))
             /\ vf' = [vf EXCEPT ![t].body = b, ![t].parses = @ + 1]
        ELSE /\ vf' = [vf EXCEPT ![t].body = b, ![t].parses = @ + 1,
                                 ![t].decrypts = @ + 1]
             /\ IF d.kind = "Panic" THEN VerifyDone(t, d)
                ELSE IF d.kind = "Err" THEN VerifyDone(t, Result("Err", "crypto"))
                ELSE IF d.val = "json" THEN VerifyDone(t, Result("Ok", "plain"))
                ELSE VerifyDone(t, Result("Err", "json"))
    /\ UNCHANGED <<cfg, store, op, rt, rf, arg>>

(**************************** the whole system ****************************)
Next ==
    \E t \in Tasks :
        \/ RefreshStart(t)
        \/ RetryReply(t)
        \/ RetryWake(t)
        \/ RefreshParse(t)
        \/ RefreshLock(t)
        \/ RefreshEntry(t)
        \/ RefreshUnlock(t)
        \/ GetBySerial(t)
        \/ VerifyStart(t)
        \/ VerifyLookup2(t)
        \/ VerifyCheck(t)
        \/ VerifyBody(t)
        \/ Finish(t)

Spec == Init /\ [][Next]_vars

(********************** WechatClient::sign_and_post ***********************)
\* max_retries: 3 in WechatClient::with_mode
MaxRetries == 3

\* the method argument: the two the closure knows, and another one
Methods == {"GET", "POST", "PUT"}

\* what the gateway does with one request: a 2xx reply with a JSON body, no
\* reply (connection or read failure), a reply with a status that is not
\* 2xx, a 2xx reply whose body is not JSON
Replies == {"ok", "transport", "status", "badjson"}

\* client.rs send_req: the closure that retry_async is given
send_req(method, reply) ==
    IF method \notin {"GET", "POST"} THEN Result("Err", "method")
    ELSE IF reply = "transport" THEN Result("Err", "transport")
    ELSE IF reply = "status" THEN Result("Err", "status")
    ELSE IF reply = "badjson" THEN Result("Err", "json")
    ELSE Result("Ok", "value")

\* lines 403-464: parse the url, sign, enter retry_async(max_retries, send_req)
SignAndPostStart(t) ==
    /\ pc[t] = "idle"
    /\ op' = [op EXCEPT ![t] = "post"]
    /\ \E method \in Methods, urlOk \in BOOLEAN :
        /\ arg' = [arg EXCEPT ![t] = method]
        /\ IF ~urlOk
           THEN /\ VerifyDone(t, Result("Err", "url"))
                /\ rt' = rt
           ELSE IF rsa_sign_sha256_pem(cfg.privOk).kind = "Err"
           THEN /\ VerifyDone(t, Result("Err", "sign"))
                /\ rt' = rt
           ELSE /\ rt' = [rt EXCEPT ![t] = retry_enter(MaxRetries)]
                /\ pc' = [pc EXCEPT ![t] = "r_await"]
                /\ res' = res
    /\ UNCHANGED <<cfg, store, rf, vf>>

\* one turn of retry_async's loop over send_req: match f().await
PostReply(t) ==
    /\ pc[t] = "r_await"
    /\ op[t] = "post"
    /\ \E reply \in Replies :
        LET r == rt[t]
            o == send_req(arg[t], reply)
            a == WrappingDec(r.attempts)
        IN  IF o.kind = "Ok"
            THEN /\ rt' = [rt EXCEPT ![t].out = o, ![t].okAt = r.calls]
                 /\ pc' = [pc EXCEPT ![t] = "r_ret"]
            ELSE IF a = 0
            THEN /\ rt' = [rt EXCEPT ![t].attempts = a, ![t].out = o,
                                     ![t].errAt = r.calls,
                                     ![t].errs = Append(@, o.val)]
                 /\ pc' = [pc EXCEPT ![t] = "r_ret"]
            ELSE /\ rt' = [rt EXCEPT ![t].attempts = a,
                                     ![t].waits = Append(@, r.delay),
                                     ![t].errs = Append(@, o.val)]
                 /\ pc' = [pc EXCEPT ![t] = "r_sleep"]
    /\ UNCHANGED <<cfg, store, op, res, rf, vf, arg>>

\* lines 464-470: .map_err(|e| PayError::Other(..))?; Ok(v)
PostReturn(t) ==
    /\ pc[t] = "r_ret"
    /\ op[t] = "post"
    /\ res' = [res EXCEPT ![t] = IF rt[t].out.kind = "Ok" THEN rt[t].out
                                 ELSE Result("Err", "other")]
    /\ pc' = [pc EXCEPT ![t] = "done"]
    /\ UNCHANGED <<cfg, store, op, rt, rf, vf, arg>>

NextPost ==
    \E t \in Tasks :
        \/ SignAndPostStart(t)
        \/ PostReply(t)
        \/ RetryWake(t)
        \/ PostReturn(t)
        \/ Finish(t)

SpecPost == Init /\ [][NextPost]_vars

(************************ AlipayNotify::verify_notify *********************)
\* the keys of the notifications of the model
ParamKeys == {"Z", "trade_no", "trade_status", "sign", "sign_type"}

\* the UTF-8 bytes of a key
Bytes(k) ==
    CASE k = "Z" -> <<90>>
      [] k = "alipay_root_cert_sn" ->
             <<97, 108, 105, 112, 97, 121, 95, 114, 111, 111, 116, 95, 99,
               101, 114, 116, 95, 115, 110>>
      [] k = "app_cert_sn" ->
             <<97, 112, 112, 95, 99, 101, 114, 116, 95, 115, 110>>
      [] k = "app_id" -> <<97, 112, 112, 95, 105, 100>>
      [] k = "biz_content" ->
             <<98, 105, 122, 95, 99, 111, 110, 116, 101, 110, 116>>
      [] k = "method" -> <<109, 101, 116, 104, 111, 100>>
      [] k = "notify_url" ->
             <<110, 111, 116, 105, 102, 121, 95, 117, 114, 108>>
      [] k = "out_trade_no" ->
             <<111, 117, 116, 95, 116, 114, 97, 100, 101, 95, 110, 111>>
      [] k = "total_amount" ->
             <<116, 111, 116, 97, 108, 95, 97, 109, 111, 117, 110, 116>>
      [] k = "sign" -> <<115, 105, 103, 110>>
      [] k = "sign_type" -> <<115, 105, 103, 110, 95, 116, 121, 112, 101>>
      [] k = "trade_no" -> <<116, 114, 97, 100, 101, 95, 110, 111>>
      [] k = "trade_status" ->
             <<116, 114, 97, 100, 101, 95, 115, 116, 97, 116, 117, 115>>

RECURSIVE LexLess(_, _)
\* Ord for str: byte-wise lexicographic comparison
LexLess(x, y) ==
    IF y = <<>> THEN FALSE
    ELSE IF x = <<>> THEN TRUE
    ELSE IF Head(x) # Head(y) THEN Head(x) < Head(y)
    ELSE LexLess(Tail(x), Tail(y))

\* a.0.cmp(b.0) is Less
KeyLess(j, k) == LexLess(Bytes(j), Bytes(k))

RECURSIVE InsertSorted(_, _)
InsertSorted(k, sorted) ==
    IF sorted = <<>> THEN <<k>>
    ELSE IF KeyLess(k, Head(sorted)) THEN <<k>> \o sorted
    ELSE <<Head(sorted)>> \o InsertSorted(k, Tail(sorted))

\* verify_notify as it would be without the sort: the entries stay in
\* the order of the HashMap
unsorted(kv) == kv

RECURSIVE sort_by(_)
\* kv.sort_by(|a, b| a.0.cmp(b.0))
sort_by(kv) ==
    IF kv = <<>> THEN <<>> ELSE InsertSorted(Head(kv), sort_by(Tail(kv)))

RECURSIVE Perms(_)
\* the orders in which a HashMap may iterate over the entries with keys S
Perms(S) ==
    IF S = {} THEN {<<>>}
    ELSE UNION { { <<x>> \o q : q \in Perms(S \ {x}) } : x \in S }

RECURSIVE join(_, _)
\* Vec<String>::join(sep)
join(strs, sep) ==
    IF strs = <<>> THEN ""
    ELSE IF Len(strs) = 1 THEN strs[1]
    ELSE strs[1] \o sep \o join(Tail(strs), sep)

\* .map(|(k, v)| format!("{}={}", k, v)) over the entries in the order kv
KeyValues(kv, params) == [i \in 1..Len(kv) |-> kv[i] \o "=" \o params[kv[i]]]

\* the filter as it would be with sign_type alone taken out
NotifyFilterKeepsSign(params) == { k \in DOMAIN params : k # "sign_type" }

\* .filter(|&(k, _)| k != "sign" && k != "sign_type")
NotifyFilter(params) == { k \in DOMAIN params : k # "sign" /\ k # "sign_type" }

\* lines 46-55: the pre-sign string, the filtered entries arriving in
\* the order kv
notify_content(params, kv) == join(KeyValues(sort_by(kv), params), "&")

\* cfg.alipay_public_key_pem, and the gateway's private key it belongs to
alipay_public_key_pem == "K1"
GatewayKey == "P1"

\* the statuses as they would be with a waiting trade taken for paid
SuccessStatusesWithWait == {"TRADE_SUCCESS", "TRADE_FINISHED", "WAIT_BUYER_PAY"}

\* line 75: trade_status != "TRADE_SUCCESS" && trade_status != "TRADE_FINISHED"
SuccessStatuses == {"TRADE_SUCCESS", "TRADE_FINISHED"}

\* params.get(k).cloned().unwrap_or_default()
get_or_default(params, k) == IF k \in DOMAIN params THEN params[k] ELSE ""

\* lines 68-72 and 104-112: the named fields of AlipayNotifyData
NotifyData(params) ==
    [k \in {"app_id", "out_trade_no", "trade_no", "trade_status", "total_amount"}
        |-> get_or_default(params, k)]

NoData == [k \in {} |-> ""]

\* lines 41-113; the result with the locals content and verified, and
\* the AlipayNotifyData of an Ok
verify_notify(params, kv) ==
    IF "sign" \notin DOMAIN params
    THEN [result |-> Result("Err", "missing sign"), content |-> "",
          verified |-> NoResult, data |-> NoData]
    ELSE LET content == notify_content(params, kv)
             verified == rsa_verify(alipay_public_key_pem, content, params["sign"])
             trade_status == get_or_default(params, "trade_status")
             accepted == /\ verified = Result("Ok", "true")
                         /\ trade_status \in SuccessStatuses
         IN  [ result |->
                 IF verified.kind = "Err" THEN Result("Err", "crypto")
                 ELSE IF verified.val = "false" THEN Result("Err", "invalid signature")
                 ELSE IF trade_status \notin SuccessStatuses
                 THEN Result("Err", "trade_status not success: " \o trade_status)
                 ELSE Result("Ok", "data"),
               content |-> content,
               verified |-> verified,
               data |-> IF accepted THEN NotifyData(params) ELSE NoData ]

\* the values a key takes in the notifications of the model
ParamValues(k) ==
    IF k = "trade_status" THEN {"TRADE_SUCCESS", "WAIT_BUYER_PAY"}
    ELSE IF k = "sign_type" THEN {"RSA2"}
    ELSE IF k = "Z" THEN {"x y"}
    ELSE {"7"}

\* the parameter maps before a sign entry is put in
UnsignedParams ==
    UNION { { f \in [D -> UNION { ParamValues(k) : k \in D }] :
                \A k \in D : f[k] \in ParamValues(k) } :
            D \in SUBSET (ParamKeys \ {"sign"}) }

\* the keys of S in ascending byte order
Ascending(S) ==
    [i \in 1..Cardinality(S) |->
        CHOOSE k \in S : Cardinality({ j \in S : KeyLess(j, k) }) = i - 1]

\* what the gateway signs: the entries except sign and sign_type,
\* key=value in ascending byte order of the keys, joined with &
GatewayContent(p) ==
    join(KeyValues(Ascending(DOMAIN p \ {"sign", "sign_type"}), p), "&")

\* the sign entry of a notification: missing; made by the gateway; made
\* with another key; made by the gateway over a content that differs in
\* one byte; not base64; base64 of something else
SignCases == {"none", "good", "otherkey", "altered", "bad64", "junk"}

SignEntry(c, p) ==
    IF c = "good" THEN SigText(PubOf(GatewayKey), GatewayContent(p))
    ELSE IF c = "otherkey" THEN SigText("K2", GatewayContent(p))
    ELSE IF c = "altered" THEN SigText(PubOf(GatewayKey), GatewayContent(p) \o "0")
    ELSE IF c = "bad64" THEN NotBase64
    ELSE JunkSig

\* one call of verify_notify on a notification the gateway or somebody
\* else sent
AlipayVerifyNotify(t) ==
    /\ pc[t] = "idle"
    /\ \E p \in UnsignedParams, c \in SignCases :
        LET params == IF c = "none" THEN p ELSE Put(p, "sign", SignEntry(c, p))
        IN  \E kv \in Perms(NotifyFilter(params)) :
            LET r == verify_notify(params, kv) IN
            /\ arg' = [arg EXCEPT ![t] = params]
            /\ vf' = [vf EXCEPT ![t] = [content |-> r.content,
                                        verified |-> r.verified]]
            /\ res' = [res EXCEPT ![t] = r.result]
    /\ op' = [op EXCEPT ![t] = "notify"]
    /\ pc' = [pc EXCEPT ![t] = "done"]
    /\ UNCHANGED <<cfg, store, rt, rf>>

\* the fields AlipayNotifyData names without Option (lines 10-14)
RequiredFields ==
    {"app_id", "out_trade_no", "trade_no", "trade_status", "total_amount"}

\* the values a field takes in the notifications of a trade
FieldValues(k) ==
    IF k = "trade_status"
    THEN {"TRADE_SUCCESS", "TRADE_FINISHED", "WAIT_BUYER_PAY"}
    ELSE IF k = "app_id" THEN {"2021"}
    ELSE IF k = "out_trade_no" THEN {"o1"}
    ELSE IF k = "total_amount" THEN {"0.01"}
    ELSE {"7"}

\* notifications of a trade before sign is put in: any of the fields may
\* be missing
TradeParams ==
    UNION { { f \in [D -> UNION { FieldValues(k) : k \in D }] :
                \A k \in D : f[k] \in FieldValues(k) } :
            D \in SUBSET RequiredFields }

\* two of the orders in which the HashMap may hand out the keys S
Reverse(q) == [i \in 1..Len(q) |-> q[Len(q) + 1 - i]]
IterOrders(S) == {Ascending(S), Reverse(Ascending(S))}

\* one call of verify_notify on the notification of a trade: unsigned,
\* signed by the gateway, or signed with another key
AlipayVerifyTrade(t) ==
    /\ pc[t] = "idle"
    /\ \E p \in TradeParams, c \in {"none", "good", "otherkey"} :
        LET params == IF c = "none" THEN p ELSE Put(p, "sign", SignEntry(c, p))
        IN  \E kv \in IterOrders(NotifyFilter(params)) :
            LET r == verify_notify(params, kv) IN
            /\ arg' = [arg EXCEPT ![t] = params]
            /\ vf' = [vf EXCEPT ![t] = [verified |-> r.verified,
                                        data |-> r.data]]
            /\ res' = [res EXCEPT ![t] = r.result]
    /\ op' = [op EXCEPT ![t] = "trade"]
    /\ pc' = [pc EXCEPT ![t] = "done"]
    /\ UNCHANGED <<cfg, store, rt, rf>>

NextTrade ==
    \E t \in Tasks :
        \/ AlipayVerifyTrade(t)
        \/ Finish(t)

\* notifications of trades arrive at both tasks
SpecTrade == InitRetry /\ [][NextTrade]_vars

(************************ AlipayClient: signing ***************************)
\* the operations that sign: do_request (behind scan and mini_program),
\* app, h5, page, and the method each puts into the parameters
SigningOps == {"do_request", "app", "h5", "page"}

MethodOf(api) ==
    IF api = "app" THEN "alipay.trade.app.pay"
    ELSE IF api = "h5" THEN "alipay.trade.wap.pay"
    ELSE IF api = "page" THEN "alipay.trade.page.pay"
    ELSE "alipay.trade.precreate"

\* order.to_string()
BizContents == {"{}", "{\"subject\":\"x y\"}"}

\* build_common_params and the insert of biz_content: the BTreeMap of
\* the model, with notify_url when the order has one
build_common_params(api, biz, notify) ==
    LET base == [k \in {"app_id", "biz_content", "method", "sign_type"} |->
                    IF k = "app_id" THEN "app"
                    ELSE IF k = "biz_content" THEN biz
                    ELSE IF k = "method" THEN MethodOf(api)
                    ELSE "RSA2"]
    IN  IF notify THEN Put(base, "notify_url", "http://n") ELSE base

\* build_sign_string: a BTreeMap iterates in ascending order of its keys
build_sign_string(params) ==
    join(KeyValues(Ascending(DOMAIN params), params), "&")

\* urlencoding::encode, kept symbolic
encode(v) == "enc(" \o v \o ")"

\* the query of do_request and h5, the order_string of app
QueryOf(params) ==
    LET ks == Ascending(DOMAIN params)
    IN  join([i \in 1..Len(ks) |-> ks[i] \o "=" \o encode(params[ks[i]])], "&")

\* what the gateway answers to do_request
GatewayAnswers == {"transport", "badjson", "error_response", "ok"}

\* lines 113-223: sign the parameters, insert sign, build what is sent or
\* returned; do_request sends it and reads the answer
AlipaySign(t) ==
    /\ pc[t] = "idle"
    /\ \E api \in SigningOps, biz \in BizContents, notify \in BOOLEAN,
          priv \in {"P1", "notakey"}, answer \in GatewayAnswers :
        LET params == build_common_params(api, biz, notify)
            sign_src == build_sign_string(params)
            sign == rsa_sign(priv, sign_src)
            params_with_sign == Put(params, "sign", sign.val)
        IN  /\ arg' = [arg EXCEPT ![t] = params]
            /\ IF sign.kind = "Err"
               THEN /\ res' = [res EXCEPT ![t] = Result("Err", "crypto")]
                    /\ vf' = [vf EXCEPT ![t] = [content |-> sign_src,
                                                signed |-> params,
                                                sent |-> ""]]
               ELSE /\ vf' = [vf EXCEPT ![t] = [content |-> sign_src,
                                                signed |-> params_with_sign,
                                                sent |-> QueryOf(params_with_sign)]]
                    /\ res' = [res EXCEPT ![t] =
                          IF api # "do_request" THEN Result("Ok", api)
                          ELSE IF answer = "transport" THEN Result("Err", "http")
                          ELSE IF answer = "badjson" THEN Result("Err", "json")
                          ELSE IF answer = "error_response" THEN Result("Err", "alipay")
                          ELSE Result("Ok", "value")]
    /\ op' = [op EXCEPT ![t] = "sign"]
    /\ pc' = [pc EXCEPT ![t] = "done"]
    /\ UNCHANGED <<cfg, store, rt, rf>>

(******************* the functions of utils.rs, called ********************)
\* sign_and_post lines 416-419 and refresh line 34: the string that is
\* signed
sign_str(method, path, timestamp, nonce, body_str) ==
    method \o "\n" \o path \o "\n" \o timestamp \o "\n" \o nonce \o "\n"
        \o body_str \o "\n"

\* the strings the two clients hand to rsa_sign_sha256_pem: the sorted
\* key=value string of AlipayClient, the newline-joined one of WechatClient
SignedStrings(mode) ==
    IF mode = "sorted"
    THEN { build_sign_string(build_common_params(api, biz, notify)) :
              api \in SigningOps, biz \in BizContents, notify \in BOOLEAN }
    ELSE { sign_str(m, path, "1700000000", "nonce",
                    IF m = "GET" THEN "" ELSE body) :
              m \in {"GET", "POST"}, path \in {"/v3/pay", "/v3/pay?id=1"},
              body \in BizContents }

\* rsa_sign_sha256_pem on a string of one of the clients, and
\* rsa_verify_sha256_pem on its result with a public key
SignThenVerify(t) ==
    /\ pc[t] = "idle"
    /\ \E mode \in {"sorted", "fixed"}, priv \in PrivKeys, pub \in Keys :
        \E data \in SignedStrings(mode) :
            LET sig == rsa_sign(priv, data) IN
            /\ arg' = [arg EXCEPT ![t] = [mode |-> mode, priv |-> priv, pub |-> pub,
                                          data |-> data]]
            /\ vf' = [vf EXCEPT ![t] = [sign |-> sig]]
            /\ res' = [res EXCEPT ![t] =
                          IF sig.kind = "Err" THEN sig
                          ELSE rsa_verify(pub, data, sig.val)]
    /\ op' = [op EXCEPT ![t] = "roundtrip"]
    /\ pc' = [pc EXCEPT ![t] = "done"]
    /\ UNCHANGED <<cfg, store, rt, rf>>

\* the ciphertexts handed to aes_gcm_decrypt: one the gateway sealed, that
\* one with a byte changed, a text that is not base64, the empty text
Ciphertexts ==
    { Sealed("k32a", "certificate", "n12a", x) : x \in Plains }
        \cup {AlteredCt(Sealed("k32a", "certificate", "n12a", "plain")), NotBase64, ""}

\* one call of aes_gcm_decrypt
Decrypt(t) ==
    /\ pc[t] = "idle"
    /\ \E key \in CipherKeys, ad \in AssociatedData, nonce \in Nonces,
          ct \in Ciphertexts :
        /\ arg' = [arg EXCEPT ![t] = [key |-> key, ad |-> ad, nonce |-> nonce,
                                      ct |-> ct]]
        /\ res' = [res EXCEPT ![t] = aes_gcm_decrypt_text(key, ad, nonce, ct)]
    /\ op' = [op EXCEPT ![t] = "decrypt"]
    /\ pc' = [pc EXCEPT ![t] = "done"]
    /\ UNCHANGED <<cfg, store, rt, rf, vf>>

NextCrypto ==
    \E t \in Tasks :
        \/ SignThenVerify(t)
        \/ Decrypt(t)
        \/ Finish(t)

SpecCrypto == InitRetry /\ [][NextCrypto]_vars

(******************** WechatClient: the operations ************************)
Modes == {"Normal", "Service", "Sandbox"}

\* a URL string is the sequence of its pieces; Text is the string itself
Text(pieces) == join(pieces, "")

Scheme == "https://"
Host == "api.mch.weixin.qq.com"

\* with_mode lines 28-31
base_url(mode) ==
    IF mode = "Sandbox" THEN <<Scheme, Host, "/sandboxnew">> ELSE <<Scheme, Host>>

\* format!("{}{}", self.base_url, path)
endpoint(mode, path) == base_url(mode) \o path

Transactions == "/v3/pay/transactions/"
PartnerTransactions == "/v3/pay/partner/transactions/"

\* path.replace("/v3/pay/transactions/", "/v3/pay/partner/transactions/")
replace(path, from, to) ==
    [i \in 1..Len(path) |-> IF path[i] = from THEN to ELSE path[i]]

\* lines 48-59
get_service_url(mode, path) ==
    IF mode = "Service"
    THEN endpoint(mode, replace(path, Transactions, PartnerTransactions))
    ELSE endpoint(mode, path)

PayOps == {"mp", "mini", "h5", "app", "native", "micropay"}
WechatOps == PayOps \cup {"query", "close", "refund", "query_refund", "transfer"}

\* the transaction_id, out_trade_no or out_refund_no of the parameters:
\* unwrap_or("") when missing
Ids == {<<>>, <<"42">>}

\* the url each operation hands to sign_and_post
UrlOf(api, mode, id) ==
    LET prefix == IF mode = "Service" THEN PartnerTransactions ELSE Transactions
    IN  IF api \in {"mp", "mini"}
        THEN get_service_url(mode, <<Transactions, "jsapi">>)
        ELSE IF api \in PayOps THEN get_service_url(mode, <<Transactions, api>>)
        ELSE IF api = "query" THEN <<prefix, "id/">> \o id
        ELSE IF api = "close" THEN <<prefix, "out-trade-no/">> \o id \o <<"/close">>
        ELSE IF api = "refund" THEN <<"/v3/refund/domestic/refunds">>
        ELSE IF api = "query_refund" THEN <<"/v3/refund/domestic/refunds/">> \o id
        ELSE <<"/v3/transfer/batches">>

MethodOfOp(api) == IF api \in {"query", "query_refund"} THEN "GET" ELSE "POST"

\* Url::parse with path() and query(): a string that does not begin with a
\* scheme is a relative URL and fails; the path is what follows the host
\* up to the first ?, "/" when nothing does; the query is what follows
\* that ?
Url_parse(url) ==
    IF Len(url) < 2 \/ url[1] # Scheme
    THEN [ok |-> FALSE, path |-> "", query |-> Absent]
    ELSE LET marks == { i \in 3..Len(url) : url[i] = "?" }
             first == IF marks = {} THEN Len(url) + 1
                      ELSE CHOOSE i \in marks : \A j \in marks : i <= j
             p == Text(SubSeq(url, 3, first - 1))
         IN  [ok |-> TRUE,
              path |-> IF p = "" THEN "/" ELSE p,
              query |-> IF marks = {} THEN Absent
                        ELSE Text(SubSeq(url, first + 1, Len(url)))]

\* lines 411-415
path_with_query(parsed) ==
    IF parsed.query # Absent THEN parsed.path \o "?" \o parsed.query
    ELSE parsed.path

\* sign_and_post as it would be with the body signed for every method
body_str_of_any(method, body) == body

\* lines 403-407
body_str(method, body) == IF method = "GET" THEN "" ELSE body

\* now_ts() and gen_nonce(32) at the time of the calls of the model
now_ts == "1700000000"
gen_nonce == "nonce"

RECURSIVE retry_run(_, _, _)
\* retry_async over the results outs of the invocations of f, from the
\* calls-th invocation on: the turns of RetryReply and RetryWake together
retry_run(attempts, outs, calls) ==
    LET o == Head(outs)
        a == WrappingDec(attempts)
    IN  IF o.kind = "Ok" \/ a = 0 THEN [out |-> o, calls |-> calls]
        ELSE retry_run(a, Tail(outs), calls + 1)

\* lines 403-470 in one step; replies are the gateway's reactions to the
\* requests, as many as retry_async can make
sign_and_post(method, url, body, priv, replies) ==
    LET parsed == Url_parse(url) IN
    IF ~parsed.ok
    THEN [result |-> Result("Err", "parse url"), path |-> "", sign_str |-> "",
          calls |-> 0]
    ELSE LET path == path_with_query(parsed)
             s == sign_str(method, path, now_ts, gen_nonce, body_str(method, body))
             signature == rsa_sign(priv, s)
             outs == [i \in 1..Len(replies) |-> send_req(method, replies[i])]
             r == retry_run(MaxRetries, outs, 1)
         IN  IF signature.kind = "Err"
             THEN [result |-> Result("Err", "crypto"), path |-> path,
                   sign_str |-> s, calls |-> 0]
             ELSE [result |-> IF r.out.kind = "Ok" THEN r.out
                              ELSE Result("Err", "other"),
                   path |-> path, sign_str |-> s, calls |-> r.calls]

\* the gateway's reactions to the requests of one call
ReplySeqs == [1..MaxRetries -> {"ok", "transport"}]

\* the task's record of one call: what sign_and_post was given and what
\* it built
PostDone(t, api, method, url, body, r) ==
    /\ arg' = [arg EXCEPT ![t] = [api |-> api, method |-> method,
                                  url |-> Text(url), body |-> body]]
    /\ vf' = [vf EXCEPT ![t] = [path |-> r.path, sign_str |-> r.sign_str,
                                calls |-> r.calls]]
    /\ res' = [res EXCEPT ![t] = r.result]
    /\ op' = [op EXCEPT ![t] = "post"]
    /\ pc' = [pc EXCEPT ![t] = "done"]
    /\ UNCHANGED <<cfg, store, rt, rf>>

\* one of the operations of WechatClient, from the url it builds to the
\* return of sign_and_post
WechatOperation(t) ==
    /\ pc[t] = "idle"
    /\ \E api \in WechatOps, mode \in Modes, id \in Ids,
          priv \in {"P1", "notakey"}, replies \in ReplySeqs :
        LET method == MethodOfOp(api)
            url == UrlOf(api, mode, id)
        IN  PostDone(t, api, method, url, "{}",
                     sign_and_post(method, url, "{}", priv, replies))

\* the urls of direct callers of the public sign_and_post: without a path,
\* with a path, with a query, with an empty query, without scheme and host
DirectUrls ==
    { <<Scheme, Host>>, <<Scheme, Host, "/v3/pay">>,
      <<Scheme, Host, "/v3/pay", "?", "id=1">>,
      <<Scheme, Host, "/v3/pay", "?">>, <<"/v3/pay">> }

\* a call of sign_and_post by the user of the library
SignAndPost(t) ==
    /\ pc[t] = "idle"
    /\ \E method \in Methods, url \in DirectUrls, body \in BizContents,
          replies \in ReplySeqs :
        PostDone(t, "sign_and_post", method, url, body,
                 sign_and_post(method, url, body, "P1", replies))

\* certs.rs lines 24-34: the url and the string refresh signs
refresh_url == <<Scheme, Host, "/v3/certificates">>

refresh_sign_str(method, path, ts, nonce) ==
    method \o "\n" \o path \o "\n" \o ts \o "\n" \o nonce \o "\n\n"

\* certs.rs lines 24-35: the request of the certificate bootstrap, built
\* and signed (what follows it is RefreshStart's)
RefreshRequest(t) ==
    /\ pc[t] = "idle"
    /\ \E priv \in {"P1", "notakey"} :
        LET parsed == Url_parse(refresh_url)
            path == path_with_query(parsed)
            s == refresh_sign_str("GET", path, now_ts, gen_nonce)
            signature == rsa_sign(priv, s)
        IN  /\ arg' = [arg EXCEPT ![t] = [api |-> "refresh", method |-> "GET",
                                          url |-> Text(refresh_url),
                                          body |-> ""]]
            /\ vf' = [vf EXCEPT ![t] = [path |-> path, sign_str |-> s,
                                        calls |-> 0]]
            /\ res' = [res EXCEPT ![t] = signature]
    /\ op' = [op EXCEPT ![t] = "bootstrap"]
    /\ pc' = [pc EXCEPT ![t] = "done"]
    /\ UNCHANGED <<cfg, store, rt, rf>>

\* notify.rs lines 21-37: a header that is missing reads as ""
header(h) == IF h = Absent THEN "" ELSE h

\* notify.rs line 37
notice_msg(ts, nonce, body) == ts \o "\n" \o nonce \o "\n" \o body \o "\n"

\* notify.rs lines 21-37 and 58: the message verify_and_decrypt builds
\* from the headers and the body, verified with the signature header
NoticeMessage(t) ==
    /\ pc[t] = "idle"
    /\ \E ts \in {Absent, now_ts}, nonce \in {Absent, gen_nonce},
          body \in {""} \cup BizContents, sig \in {"good", "outbound"} :
        LET msg == notice_msg(header(ts), header(nonce), body)
            signature ==
                IF sig = "good"
                THEN SigText("K1", "1700000000\nnonce\n" \o body \o "\n")
                ELSE SigText("K1", "POST\n/notify\n1700000000\nnonce\n"
                                       \o body \o "\n")
        IN  /\ arg' = [arg EXCEPT ![t] = [ts |-> ts, nonce |-> nonce,
                                          body |-> body, sig |-> sig]]
            /\ vf' = [vf EXCEPT ![t] = [sign_str |-> msg]]
            /\ res' = [res EXCEPT ![t] = rsa_verify("K1", msg, signature)]
    /\ op' = [op EXCEPT ![t] = "notice"]
    /\ pc' = [pc EXCEPT ![t] = "done"]
    /\ UNCHANGED <<cfg, store, rt, rf>>

NextUrl ==
    \E t \in Tasks :
        \/ WechatOperation(t)
        \/ SignAndPost(t)
        \/ RefreshRequest(t)
        \/ NoticeMessage(t)
        \/ Finish(t)

\* the operations of WechatClient are called and notifications arrive
SpecUrl == InitRetry /\ [][NextUrl]_vars

(****************** certificate serial numbers (utils.rs) *****************)
\* the attributes of the issuer names of the model
AttrC == [type |-> "C", value |-> "CN"]
AttrO == [type |-> "O", value |-> "Ant"]
AttrCN == [type |-> "CN", value |-> "Root"]

\* issuer names: country first, and common name first
Issuers == { <<AttrC, AttrO, AttrCN>>, <<AttrCN, AttrO, AttrC>> }

AttrText(a) == a.type \o "=" \o a.value
AttrTexts(attrs) == [i \in 1..Len(attrs) |-> AttrText(attrs[i])]

\* x509.tbs_certificate.issuer().to_string(): the attributes joined with ", "
issuer_to_string(attrs) == join(AttrTexts(attrs), ", ")

\* strings::HasPrefix(&name, "CN"): the name begins with the type of its
\* first attribute
HasPrefixCN(attrs) == attrs # <<>> /\ attrs[1].type = "CN"

\* lines 120-126: Split on ", ", reverse, Join with ","
issuer_name(attrs) ==
    IF ~HasPrefixCN(attrs) THEN join(Reverse(AttrTexts(attrs)), ",")
    ELSE issuer_to_string(attrs)

Digit(d) ==
    CASE d = 0 -> "0" [] d = 1 -> "1" [] d = 2 -> "2" [] d = 3 -> "3"
      [] d = 4 -> "4" [] d = 5 -> "5" [] d = 6 -> "6" [] d = 7 -> "7"
      [] d = 8 -> "8" [] d = 9 -> "9" [] d = 10 -> "a" [] d = 11 -> "b"
      [] d = 12 -> "c" [] d = 13 -> "d" [] d = 14 -> "e" [] d = 15 -> "f"

RECURSIVE to_str_radix(_, _)
\* BigUint::to_str_radix
to_str_radix(n, radix) ==
    IF n < radix THEN Digit(n)
    ELSE to_str_radix(n \div radix, radix) \o Digit(n % radix)

\* the serial as it would be written in hexadecimal
serial_text_hex(n) == to_str_radix(n, 16)

\* line 127: x509.serial.to_str_radix(10)
serial_text(n) == to_str_radix(n, 10)

\* format!("{:x}", md5::compute(..)): the digest of a string, one for
\* each string
md5_hex(s) == "md5(" \o s \o ")"

\* signature algorithms, as the arcs of their OIDs: sha256WithRSAEncryption,
\* sha1WithRSAEncryption, ecdsa-with-SHA256
Sha256WithRsa == <<1, 2, 840, 113549, 1, 1, 11>>
Sha1WithRsa == <<1, 2, 840, 113549, 1, 1, 5>>
EcdsaWithSha256 == <<1, 2, 840, 10045, 4, 3, 2>>
Algorithms == {Sha256WithRsa, Sha1WithRsa, EcdsaWithSha256}

\* the filter as it would be with every algorithm let through
AnyAlgorithm(oid) == TRUE

RECURSIVE LeadingDigit(_)
LeadingDigit(n) == IF n < 10 THEN n ELSE LeadingDigit(n \div 10)

\* to_id_string().starts_with("1.2.840.113549.1.1"): the first five arcs
\* are those of the prefix and the text of the sixth begins with 1
StartsWithRsaPrefix(oid) ==
    /\ Len(oid) >= 6
    /\ SubSeq(oid, 1, 5) = <<1, 2, 840, 113549, 1>>
    /\ LeadingDigit(oid[6]) = 1

\* one fragment of a PEM file: does parse_x509_pem read it, does
\* parse_x509 read its content, and the certificate it holds
NoIssuer == <<>>
NoAlgorithm == <<>>
Fragment(pem, x509, issuer, serial, alg) ==
    [pem |-> pem, x509 |-> x509, issuer |-> issuer, serial |-> serial,
     alg |-> alg]
Garbage == Fragment(FALSE, FALSE, NoIssuer, 0, NoAlgorithm)
NotX509 == Fragment(TRUE, FALSE, NoIssuer, 0, NoAlgorithm)
SerialNumbers == {7, 255}
Certificates ==
    { Fragment(TRUE, TRUE, i, n, a) :
        i \in Issuers, n \in SerialNumbers, a \in Algorithms }
Fragments == Certificates \cup {Garbage, NotX509}

\* utils.rs cert_sn_from_utf8
cert_sn_from_utf8(cert) ==
    IF ~cert.pem THEN Result("Err", "parse_x509_pem")
    ELSE IF ~cert.x509 THEN Result("Err", "parse_x509 failed")
    ELSE Result("Ok", md5_hex(issuer_name(cert.issuer) \o serial_text(cert.serial)))

\* a file: can fs::read read it, is its content UTF-8, and the fragments
\* that end with -----END CERTIFICATE-----
File(readable, utf8, blocks) ==
    [readable |-> readable, utf8 |-> utf8, blocks |-> blocks]
Unreadable == File(FALSE, FALSE, <<>>)
NotUtf8 == File(TRUE, FALSE, <<Garbage>>)

\* utils.rs get_cert_sn: the certificate is the first fragment of the file
get_cert_sn(file) ==
    IF ~file.readable THEN Result("Err", "io")
    ELSE IF file.blocks = <<>> THEN cert_sn_from_utf8(Garbage)
    ELSE cert_sn_from_utf8(file.blocks[1])

\* strings::Split(&certs_str, &cert_end): the fragments, and what follows
\* the last END line
Split(blocks) == blocks \o <<Garbage>>

RECURSIVE root_sn_loop(_, _)
\* lines 150-174: the loop over pems with its accumulator sn
root_sn_loop(pems, sn) ==
    IF pems = <<>> THEN sn
    ELSE LET c == Head(pems) IN
         IF ~c.pem \/ ~c.x509 \/ ~StartsWithRsaPrefix(c.alg)
         THEN root_sn_loop(Tail(pems), sn)
         ELSE root_sn_loop(Tail(pems),
                           IF sn = "" THEN cert_sn_from_utf8(c).val
                           ELSE sn \o "_" \o cert_sn_from_utf8(c).val)

\* utils.rs root_cert_sn_from_utf8
root_cert_sn_from_utf8(file) ==
    IF ~file.utf8 THEN Result("Err", "form_utf8 failed")
    ELSE LET sn == root_sn_loop(Split(file.blocks), "") IN
         IF sn = "" THEN Result("Err", "failed to get sn")
         ELSE Result("Ok", sn)

\* utils.rs get_root_cert_sn
get_root_cert_sn(file) ==
    IF ~file.readable THEN Result("Err", "io")
    ELSE root_cert_sn_from_utf8(file)

\* certificate files and root bundles of up to two fragments
CertFiles ==
    {Unreadable} \cup { File(TRUE, TRUE, <<c>>) : c \in Fragments }
BundleFiles ==
    {Unreadable, NotUtf8, File(TRUE, TRUE, <<>>)}
        \cup { File(TRUE, TRUE, <<c>>) : c \in Fragments }
        \cup { File(TRUE, TRUE, <<c, d>>) : c \in Fragments, d \in Fragments }

CertDone(t, name, a, r) ==
    /\ arg' = [arg EXCEPT ![t] = a]
    /\ res' = [res EXCEPT ![t] = r]
    /\ op' = [op EXCEPT ![t] = name]
    /\ pc' = [pc EXCEPT ![t] = "done"]
    /\ UNCHANGED <<cfg, store, rt, rf>>

\* a call of get_cert_sn
GetCertSn(t) ==
    /\ pc[t] = "idle"
    /\ \E file \in CertFiles : CertDone(t, "cert_sn", file, get_cert_sn(file))
    /\ vf' = vf

\* a call of get_root_cert_sn
GetRootCertSn(t) ==
    /\ pc[t] = "idle"
    /\ \E file \in BundleFiles :
        CertDone(t, "root_sn", file, get_root_cert_sn(file))
    /\ vf' = vf

\* an Option<String> path of the configuration: none, or the file there
NoPath == <<>>
SomePath(file) == <<file>>

\* alipay/client.rs lines 77-94: the serial numbers of certificate mode
cert_mode_params(params, app_cert_path, alipay_root_cert_path) ==
    IF app_cert_path = NoPath \/ alipay_root_cert_path = NoPath THEN params
    ELSE LET a == get_cert_sn(app_cert_path[1])
             r == get_root_cert_sn(alipay_root_cert_path[1])
             app_sn == IF a.kind = "Ok" THEN a.val ELSE ""
             root_sn == IF r.kind = "Ok" THEN r.val ELSE ""
             p1 == IF app_sn # "" THEN Put(params, "app_cert_sn", app_sn)
                   ELSE params
         IN  IF root_sn # "" THEN Put(p1, "alipay_root_cert_sn", root_sn)
             ELSE p1

\* the certificate paths of the configurations of the model
AppCertPaths ==
    { NoPath, SomePath(Unreadable), SomePath(File(TRUE, TRUE, <<Garbage>>)),
      SomePath(File(TRUE, TRUE,
                    <<Fragment(TRUE, TRUE, <<AttrC, AttrO, AttrCN>>, 7,
                               Sha256WithRsa)>>)) }
RootCertPaths ==
    { NoPath, SomePath(Unreadable),
      SomePath(File(TRUE, TRUE,
                    <<Fragment(TRUE, TRUE, <<AttrCN, AttrO, AttrC>>, 255,
                               EcdsaWithSha256)>>)),
      SomePath(File(TRUE, TRUE,
                    <<Fragment(TRUE, TRUE, <<AttrCN, AttrO, AttrC>>, 255,
                               Sha1WithRsa)>>)) }

\* alipay/client.rs do_request with a configuration that may name
\* certificates: build the parameters, sign, send
AlipayCertRequest(t) ==
    /\ pc[t] = "idle"
    /\ \E app \in AppCertPaths, root \in RootCertPaths,
          priv \in {"P1", "notakey"}, answer \in GatewayAnswers :
        LET params == cert_mode_params(
                          build_common_params("do_request", "{}", FALSE),
                          app, root)
            sign_src == build_sign_string(params)
            sign == rsa_sign(priv, sign_src)
            params_with_sign == Put(params, "sign", sign.val)
        IN  /\ arg' = [arg EXCEPT ![t] = [app_cert_path |-> app,
                                          alipay_root_cert_path |-> root]]
            /\ IF sign.kind = "Err"
               THEN /\ res' = [res EXCEPT ![t] = Result("Err", "crypto")]
                    /\ vf' = [vf EXCEPT ![t] = [content |-> sign_src,
                                                signed |-> params,
                                                sent |-> ""]]
               ELSE /\ vf' = [vf EXCEPT ![t] = [content |-> sign_src,
                                                signed |-> params_with_sign,
                                                sent |-> QueryOf(params_with_sign)]]
                    /\ res' = [res EXCEPT ![t] =
                          IF answer = "transport" THEN Result("Err", "http")
                          ELSE IF answer = "badjson" THEN Result("Err", "json")
                          ELSE IF answer = "error_response" THEN Result("Err", "alipay")
                          ELSE Result("Ok", "value")]
    /\ op' = [op EXCEPT ![t] = "certreq"]
    /\ pc' = [pc EXCEPT ![t] = "done"]
    /\ UNCHANGED <<cfg, store, rt, rf>>

NextCert ==
    \E t \in Tasks :
        \/ GetCertSn(t)
        \/ GetRootCertSn(t)
        \/ AlipayCertRequest(t)
        \/ Finish(t)

\* serial numbers are computed and requests are made in certificate mode
SpecCert == InitRetry /\ [][NextCert]_vars

(********************* the two notification handlers **********************)
\* the store after a refresh that brought the certificates of S1 and S2
InitNotify ==
    /\ cfg \in [key32 : BOOLEAN, privOk : {TRUE}]
    /\ map = [s \in Serials |-> IF s = "S1" THEN "K1" ELSE "K2"]
    /\ holder = NoTask
    /\ poisoned = FALSE
    /\ torn = FALSE
    /\ pc = [t \in Tasks |-> "idle"]
    /\ op = [t \in Tasks |-> "none"]
    /\ res = [t \in Tasks |-> NoResult]
    /\ rt = [t \in Tasks |-> NoRetry]
    /\ rf = [t \in Tasks |-> NoRefresh]
    /\ vf = [t \in Tasks |-> NoVerify]
    /\ arg = [t \in Tasks |-> ""]

\* notifications of both gateways arrive and requests are signed; the
\* certificate request a call with an unknown serial sends stays unanswered
NextNotify ==
    \E t \in Tasks :
        \/ VerifyStart(t)
        \/ VerifyCheck(t)
        \/ VerifyBody(t)
        \/ AlipayVerifyNotify(t)
        \/ AlipaySign(t)
        \/ Finish(t)

SpecNotify == InitNotify /\ [][NextNotify]_vars

(******************* all tasks on one executor thread *********************)
\* Task u is running on its thread: it is neither suspended at an .await
\* nor outside a call.  std::thread::sleep (utils.rs:1, :88) does not
\* suspend the task, it puts the thread to sleep with the task on it.
Occupies(u) == pc[u] \notin {"idle", "r_await", "done"}

\* the executor's one thread can poll task t: no other task is on it
Runnable(t) == \A u \in Tasks \ {t} : ~Occupies(u)

\* one step of task t
Step(t) ==
    \/ RefreshStart(t)
    \/ RetryReply(t)
    \/ RetryWake(t)
    \/ RefreshParse(t)
    \/ RefreshLock(t)
    \/ RefreshEntry(t)
    \/ RefreshUnlock(t)
    \/ GetBySerial(t)
    \/ VerifyStart(t)
    \/ VerifyLookup2(t)
    \/ VerifyCheck(t)
    \/ VerifyBody(t)
    \/ Finish(t)

\* the tasks of a current-thread runtime, or of one worker of the
\* multi-thread runtime of #[tokio::main]
NextOneThread == \E t \in Tasks : Runnable(t) /\ Step(t)

SpecOneThread == Init /\ [][NextOneThread]_vars

(************************** claims: the store *****************************)
\* the step in which task t's refresh comes back with a result of kind k
RefreshReturns(t, k) == rf[t].ret.kind = "none" /\ rf'[t].ret.kind = k

\* the table the refresh of task t found: the one it cleared, or the
\* current one when it has not taken the lock
TableBefore(t) == IF holder = t THEN rf[t].before ELSE map

\* t's refresh found a sound table and no other task is rebuilding it
Undisturbed(t) ==
    /\ ~poisoned
    /\ \/ holder = t /\ ~rf[t].tornBefore
       \/ holder = NoTask /\ ~torn

\* an entry that carries a string serial_no and an encrypt_certificate
IsComplete(e) == e.serial_no \in Serials /\ e.has_enc

\* the public key inside entry e
KeyOfEntry(e) == extract_pubkey_from_cert(aes_gcm_decrypt(cfg.key32, e.enc).val).val

\* the serials of the complete entries of a response
SerialsOf(seq) == { seq[i].serial_no : i \in { j \in 1..Len(seq) : IsComplete(seq[j]) } }

\* the key of the last complete entry for serial s
LastKeyFor(seq, s) ==
    LET I == { i \in 1..Len(seq) : IsComplete(seq[i]) /\ seq[i].serial_no = s }
        last == CHOOSE i \in I : \A j \in I : j <= i
    IN  KeyOfEntry(seq[last])

\* C1: after a refresh that returns Ok the table is exactly what the
\* response holds: every serial of the response is retrievable with its
\* key, and a serial of the old table that the response lacks is gone.
C1_ExactReplacement ==
    [][\A t \in Tasks : (RefreshReturns(t, "Ok") /\ Undisturbed(t)) =>
          /\ \A s \in SerialsOf(rf[t].seen) :
                Lookup(map', s) = Result("Some", LastKeyFor(rf[t].seen, s))
          /\ \A s \in Serials \cap DOMAIN TableBefore(t) :
                s \notin SerialsOf(rf[t].seen) => Lookup(map', s).kind = "None"]_vars

\* C2: a refresh that reports success has turned a populated table into
\* an empty one only when the response is well-formed and its data array
\* is empty; entries without serial_no or encrypt_certificate do not
\* empty the table.
C2_NoSilentEmptying ==
    [][\A t \in Tasks :
          ( /\ RefreshReturns(t, "Ok")
            /\ Undisturbed(t)
            /\ TableBefore(t) # EmptyMap
            /\ map' = EmptyMap )
          => ( holder = t /\ rf[t].seen = <<>> )]_vars

\* the step in which task t reads the table in get_by_serial
ReadsTable(t) ==
    /\ ~poisoned
    /\ \/ pc[t] = "idle" /\ op'[t] \in {"get", "verify"}
       \/ pc[t] = "v_get2" /\ pc'[t] # "v_get2"

\* C3: every get_by_serial, during or after a refresh, reads either the
\* complete old table or the complete new one, never a partly built or a
\* cleared one.
C3_NoTornRead ==
    [][\A t \in Tasks : ReadsTable(t) => ~torn]_vars

\* C4: a refresh that returns an error leaves the table as it found it.
C4_ErrorKeepsTable ==
    [][\A t \in Tasks : (RefreshReturns(t, "Err") /\ Undisturbed(t)) =>
          map' = TableBefore(t)]_vars

\* the step in which task t runs get_by_serial on its own
GetStep(t) == pc[t] = "idle" /\ op'[t] = "get"

\* C5: a get_by_serial that misses returns None, changes neither the table
\* nor the lock and starts neither a refresh nor a request; after a
\* refresh that returned Ok on a response with an entry (serial_no and
\* encrypt_certificate) for the serial, get_by_serial finds that key.
C5_MissThenRefresh ==
    [][\A t \in Tasks :
          /\ (GetStep(t) /\ arg'[t] \notin DOMAIN map) =>
                /\ res'[t] = Result("None", "")
                /\ pc'[t] = "done"
                /\ UNCHANGED <<map, holder, poisoned, rt, rf>>
          /\ RefreshReturns(t, "Ok") =>
                \A s \in SerialsOf(rf[t].seen) :
                    Lookup(map', s) = Result("Some", LastKeyFor(rf[t].seen, s))]_vars

(************************* claims: the handler ****************************)
\* C6: one call of verify_and_decrypt calls refresh at most once and only
\* after its first lookup missed; a first lookup that hits is the only
\* lookup; a refresh that returned Ok is followed by exactly one further
\* lookup and no refresh, one that did not ends the call.
C6_OneRefreshPerCall ==
    \A t \in Tasks : op[t] = "verify" =>
        LET v == vf[t] IN
        /\ v.refreshes <= 1
        /\ v.lookups <= 2
        /\ v.refreshes = 1 => v.first = "None"
        /\ v.first = "Some" => (v.refreshes = 0 /\ v.lookups = 1)
        /\ v.lookups = 2 => (v.refreshes = 1 /\ rf[t].ret.kind = "Ok")
        /\ (rf[t].ret.kind = "Ok" /\ pc[t] # "v_get2") => v.lookups = 2
        /\ rf[t].ret.kind \in {"Err", "Panic"} => (v.lookups = 1 /\ pc[t] = "done")

\* a call whose first lookup missed, that refreshed once, looked up once
\* more and went on to accept the notification
C6_Witness ==
    \E t \in Tasks :
        /\ op[t] = "verify" /\ pc[t] = "done" /\ res[t].kind = "Ok"
        /\ vf[t].first = "None" /\ vf[t].refreshes = 1 /\ vf[t].lookups = 2

\* C7: when the serial is in the table neither at the first lookup nor
\* after the one refresh has returned Ok, the call returns the
\* certificate-not-found error and has run neither verification nor
\* decryption.
C7_NotFoundAfterRefresh ==
    /\ [][\A t \in Tasks :
            (pc[t] = "v_get2" /\ pc'[t] # "v_get2" /\ arg[t] \notin DOMAIN map)
            => vf'[t].pub_pem.kind = "None"]_vars
    /\ [](\A t \in Tasks :
            ( /\ op[t] = "verify" /\ pc[t] = "done"
              /\ vf[t].lookups = 2 /\ vf[t].pub_pem.kind = "None" )
            => ( /\ res[t] = Result("Err", "notfound")
                 /\ vf[t].ok = "none"
                 /\ vf[t].parses = 0 /\ vf[t].decrypts = 0 ))

\* C8: the body is parsed and the resource decrypted only after the
\* signature verified as true; a call given a signature that does not
\* belong to the message is rejected without a decryption.
C8_VerifyBeforeDecrypt ==
    \A t \in Tasks : op[t] = "verify" =>
        LET v == vf[t] IN
        /\ (v.parses > 0 \/ v.decrypts > 0 \/ pc[t] = "v_body") => v.ok = "true"
        /\ (v.sig # "" /\ v.sig # SigOf(v.pub_pem.val)) =>
              /\ pc[t] = "done" /\ res[t].kind = "Err"
              /\ v.parses = 0 /\ v.decrypts = 0

\* a call whose signature header was tampered with has been rejected
C8_Witness ==
    \E t \in Tasks :
        /\ op[t] = "verify" /\ pc[t] = "done"
        /\ vf[t].pub_pem = Result("Some", "K1") /\ vf[t].sig = "sigX"
        /\ res[t] = Result("Err", "badsig") /\ vf[t].decrypts = 0

\* the body of the call parses and, if it has a resource, decrypts to JSON
BodyAccepted(b) ==
    /\ b \in Notices
    /\ IsJson(b)
    /\ HasResource(b) => aes_gcm_decrypt(cfg.key32, ResourceOf(b)) = Result("Ok", "json")

\* C9: the call returns Ok only with a non-empty key found for the serial
\* and a signature that verified as true with it; with a missing key, a
\* failed refresh, a false or failed verification, a body that is not
\* JSON or a resource that does not decrypt it returns an error.
C9_OkOnlyIfVerified ==
    \A t \in Tasks : (op[t] = "verify" /\ pc[t] = "done") =>
        LET v == vf[t] IN
        /\ res[t].kind = "Ok" =>
              /\ v.pub_pem.kind = "Some" /\ v.pub_pem.val # ""
              /\ rsa_verify_sha256_pem(v.pub_pem.val, v.sig) = Result("Ok", "true")
              /\ v.ok = "true"
              /\ BodyAccepted(v.body)
        /\ ( \/ (v.pub_pem.kind = "None" /\ rf[t].ret.kind # "Panic")
             \/ rf[t].ret.kind = "Err"
             \/ v.ok \in {"false", "err"}
             \/ (v.body # "none" /\ ~BodyAccepted(v.body)) )
           => res[t].kind = "Err"

(************************** claims: retry_async ***************************)
\* C10: retry_async(max_attempts, f) invokes f at most max_attempts times,
\* for every max_attempts including 0.
C10_AtMostMaxAttempts ==
    \A t \in Tasks : op[t] = "retry" => rt[t].calls <= rt[t].max

\* C11: for max_attempts n >= 1 and an operation that fails every time,
\* retry_async invokes it exactly n times and sleeps exactly n - 1 times,
\* the k-th sleep after the k-th and before the (k+1)-th invocation and
\* none after the n-th; it returns the error of the n-th invocation; for
\* n = 4 the sleeps are 200, 400, 800 ms.
C11_ExhaustedRetry ==
    \A t \in Tasks :
        (op[t] = "retry" /\ rt[t].max >= 1 /\ rt[t].okAt = 0) =>
            LET r == rt[t]
                n == rt[t].max
            IN  /\ r.calls <= n
                /\ pc[t] = "r_await" => Len(r.waits) = r.calls - 1
                /\ pc[t] = "r_sleep" => (Len(r.waits) = r.calls /\ r.calls < n)
                /\ pc[t] \in {"r_ret", "done"} =>
                      /\ r.calls = n
                      /\ Len(r.waits) = n - 1
                      /\ r.out.kind = "Err"
                      /\ r.errAt = n
                      /\ n = 4 => r.waits = <<200, 400, 800>>
                /\ pc[t] = "done" => res[t] = r.out

\* retry_async(4, f) with f failing four times has returned the error
C11_Witness ==
    \E t \in Tasks :
        /\ op[t] = "retry" /\ pc[t] = "done" /\ rt[t].max = 4
        /\ rt[t].calls = 4 /\ rt[t].waits = <<200, 400, 800>>
        /\ res[t].kind = "Err" /\ rt[t].errAt = 4

\* the k-th backoff wait of the claim: min(200 * 2^(k-1), 5000)
BackoffOf(k) == Min(200 * (2 ^ (k - 1)), 5000)

\* C12: the k-th sleep of one retry_async call lasts min(200 * 2^(k-1),
\* 5000) ms, whatever the call and whatever the task: 200, 400, 800, 1600,
\* 3200, 5000, 5000, ..; no sleep exceeds 5000 and none is shorter than
\* the one before it.
C12_BackoffSequence ==
    \A t \in Tasks :
        LET w == rt[t].waits IN
        /\ \A k \in 1..Len(w) : w[k] = BackoffOf(k) /\ w[k] <= 5000
        /\ \A k \in 1..(Len(w) - 1) : w[k] <= w[k + 1]
        /\ pc[t] = "r_sleep" => rt[t].delay = BackoffOf(Len(w))

\* a retry_async(8, f) call that has slept seven times, the ceiling reached
C12_Witness ==
    \E t \in Tasks :
        /\ op[t] = "retry" /\ rt[t].max = 8
        /\ rt[t].waits = <<200, 400, 800, 1600, 3200, 5000, 5000>>

(************************ claims: suspension points ***********************)
\* C13: while a task is in a backoff sleep of retry_async, every other
\* task, one on the same executor thread included, can take its next step:
\* start a call, receive the reply it awaits, or finish.
C13_OthersCanStep ==
    \A u \in Tasks : \A t \in Tasks \ {u} :
        (pc[u] = "r_sleep" /\ pc[t] \in {"idle", "r_await", "done"}) =>
            ENABLED (Runnable(t) /\ Step(t))

\* C14: a task that is in a backoff sleep or awaits the reply of a request
\* does not hold the lock of the table; a task holds the lock only inside
\* the table update of refresh.
C14_NoLockWhileSuspended ==
    \A t \in Tasks :
        /\ pc[t] \in {"r_sleep", "r_await"} => holder # t
        /\ holder = t => pc[t] = "rf_loop"

\* one task sleeps between two attempts of its refresh while the other
\* one holds the lock and rebuilds the table
C14_Witness ==
    \E t \in Tasks : \E u \in Tasks \ {t} :
        /\ pc[t] = "r_sleep" /\ op[t] \in {"refresh", "verify"}
        /\ holder = u /\ pc[u] = "rf_loop"

(*********************** claims: what is retried **************************)
\* failures of the network or of HTTP
TransportClass == {"transport", "status"}

\* C15: in sign_and_post and in refresh every backoff wait and every
\* further request follows an attempt that failed with a transport-class
\* failure; an attempt that failed on a body that is not JSON or on an
\* unsupported method ends the call with no wait and no further request,
\* and a failure to sign ends it before any request.
C15_RetryOnlyTransport ==
    \A t \in Tasks : op[t] \in {"post", "refresh", "verify"} =>
        LET r == rt[t] IN
        /\ \A k \in 1..Len(r.waits) : r.errs[k] \in TransportClass
        /\ \A k \in 1..Len(r.errs) :
              r.errs[k] \notin TransportClass =>
                  /\ k = r.calls /\ Len(r.waits) = k - 1
                  /\ pc[t] \in {"r_ret", "done"}
        /\ (pc[t] = "done" /\ res[t] = Result("Err", "sign")) => r.calls = 0

(********************** claims: signatures ********************************)
\* the messages and signature texts the verify function is tried on: a
\* message, the message with one byte changed, and for each of them the
\* signature of either key, besides a text that is not base64 and base64
\* of bytes that are no signature
TriedMsgs == {NoticeMsg, "ts\nnonce\nbodx\n"}
TriedSigs ==
    { SigText(k, m) : k \in Keys, m \in TriedMsgs } \cup {NotBase64, JunkSig}

\* the verify function: false, never an error, for a key that parses and a
\* decodable signature that does not match; an error only for a key that
\* does not parse or a signature that is not base64
VerifyFalseNotError ==
    \A pub \in Keys \cup {"notakey"}, m \in TriedMsgs, sig \in TriedSigs :
        LET r == rsa_verify(pub, m, sig) IN
        /\ (pub \in Keys /\ sig # NotBase64 /\ sig # SigText(pub, m))
              => (r.kind = "Ok" /\ r.val = "false")
        /\ r.kind = "Err" => (pub \notin Keys \/ sig = NotBase64)
        /\ (pub \in Keys /\ sig = SigText(pub, m)) => (r.kind = "Ok" /\ r.val = "true")

\* C16: verify returns false, not an error, for a well-formed key and a
\* decodable signature that does not match the message (the signature of
\* the message with one byte changed included) and an error only for
\* malformed input; verify_and_decrypt and verify_notify report false as
\* an invalid signature and an error as a crypto error.
C16_FalseIsNotError ==
    /\ VerifyFalseNotError
    /\ \A t \in Tasks :
        /\ (op[t] = "verify" /\ vf[t].sig # "") =>
              LET r == rsa_verify(vf[t].pub_pem.val, NoticeMsg, HeaderSig(vf[t].sig))
              IN  /\ (r.kind = "Ok" /\ r.val = "false") =>
                        (pc[t] = "done" /\ res[t] = Result("Err", "badsig"))
                  /\ r.kind = "Err" =>
                        (pc[t] = "done" /\ res[t] = Result("Err", "crypto"))
        /\ (op[t] = "notify" /\ "sign" \in DOMAIN arg[t]) =>
              LET r == rsa_verify(alipay_public_key_pem, GatewayContent(arg[t]),
                                  arg[t]["sign"])
              IN  /\ (r.kind = "Ok" /\ r.val = "false") =>
                        res[t] = Result("Err", "invalid signature")
                  /\ r.kind = "Err" => res[t] = Result("Err", "crypto")

\* one handler has rejected a notification whose signature is the one of
\* a content that differs in a byte, the other one has reported a
\* signature header that is not base64
C16_Witness ==
    \E t \in Tasks : \E u \in Tasks \ {t} :
        /\ op[t] = "notify" /\ pc[t] = "done" /\ "sign" \in DOMAIN arg[t]
        /\ arg[t]["sign"] = SigText("K1", GatewayContent(arg[t]) \o "0")
        /\ res[t] = Result("Err", "invalid signature")
        /\ op[u] = "verify" /\ pc[u] = "done" /\ vf[u].sig = "bad64"
        /\ res[u] = Result("Err", "crypto")

TagVerifies(key, ad, nonce, ct) ==
    \E plain \in Plains : ct = Sealed(key, ad, nonce, plain)

\* C18: decrypt returns a plaintext only for a key of 32 bytes, a
\* ciphertext that is base64 and a tag that verifies for key, nonce and
\* associated data, and then the plaintext that was sealed; when one of
\* the three fails it returns an error, the same kind for all three; an
\* input with key, associated data, nonce or ciphertext altered gives no
\* plaintext.
C18_DecryptOrError ==
    \A t \in Tasks : (op[t] = "decrypt" /\ pc[t] = "done") =>
        LET a == arg[t] IN
        /\ res[t].kind = "Ok" =>
              /\ KeyLen(a.key) = 32 /\ a.ct # NotBase64
              /\ a.ct = Sealed(a.key, a.ad, a.nonce, res[t].val)
        /\ ( \/ KeyLen(a.key) # 32
             \/ a.ct = NotBase64
             \/ ~TagVerifies(a.key, a.ad, a.nonce, a.ct) )
           => res[t].kind = "Err"

(********************** claims: canonical strings *************************)
\* key=value of the entries of p except the keys in out, in ascending byte
\* order of the keys, joined with &
CanonicalWithout(p, out) ==
    join(KeyValues(Ascending(DOMAIN p \ out), p), "&")

\* C19: the sign entry is never part of what is signed or verified: in
\* do_request, app, h5 and page the signed string is built from the
\* parameters as they are before sign is inserted, and in verify_notify
\* the verified string is built from the parameters without sign.
C19_SignNotSigned ==
    \A t \in Tasks :
        /\ op[t] = "sign" =>
              /\ "sign" \notin DOMAIN arg[t]
              /\ vf[t].content = CanonicalWithout(vf[t].signed, {"sign"})
              /\ res[t].kind = "Ok" =>
                    /\ "sign" \in DOMAIN vf[t].signed
                    /\ vf[t].signed["sign"] = SigText("K1", vf[t].content)
        /\ (op[t] = "notify" /\ "sign" \in DOMAIN arg[t]) =>
              /\ vf[t].content = CanonicalWithout(arg[t], {"sign", "sign_type"})
              /\ vf[t].verified =
                    rsa_verify(alipay_public_key_pem,
                               CanonicalWithout(arg[t], {"sign", "sign_type"}),
                               arg[t]["sign"])

\* one task has signed a request and holds the parameters with sign
\* inserted, the other has accepted a notification that carries sign
C19_Witness ==
    \E t \in Tasks : \E u \in Tasks \ {t} :
        /\ op[t] = "sign" /\ res[t].kind = "Ok" /\ "sign" \in DOMAIN vf[t].signed
        /\ op[u] = "notify" /\ res[u].kind = "Ok" /\ "sign" \in DOMAIN arg[u]

\* the string verify_notify builds does not depend on the order in which
\* the map hands out its entries
ContentOrderFree ==
    \A p \in UnsignedParams :
        \A kv1 \in Perms(NotifyFilter(p)), kv2 \in Perms(NotifyFilter(p)) :
            notify_content(p, kv1) = notify_content(p, kv2)

\* C20: the string verify_notify checks is key=value of all entries except
\* sign and sign_type, in byte order of the raw keys (upper case before
\* lower case), joined with &, the values as they are; it is the same for
\* every order in which the map iterates.
C20_NotifyCanonical ==
    /\ ContentOrderFree
    /\ \A t \in Tasks : (op[t] = "notify" /\ "sign" \in DOMAIN arg[t]) =>
          /\ vf[t].content = CanonicalWithout(arg[t], {"sign", "sign_type"})
          /\ ( /\ DOMAIN arg[t] = ParamKeys
               /\ arg[t]["trade_status"] = "TRADE_SUCCESS" )
             => vf[t].content = "Z=x y&trade_no=7&trade_status=TRADE_SUCCESS"
          /\ DOMAIN arg[t] \subseteq {"sign", "sign_type"} => vf[t].content = ""

\* a notification with all keys of the model has been verified
C20_Witness ==
    \E t \in Tasks :
        /\ op[t] = "notify" /\ DOMAIN arg[t] = ParamKeys
        /\ arg[t]["trade_status"] = "TRADE_SUCCESS"
        /\ vf[t].content = "Z=x y&trade_no=7&trade_status=TRADE_SUCCESS"
        /\ res[t].kind = "Ok"

(********************* claims: accepting a notification *******************)
\* the trade_status verify_notify reads: the empty string when absent
StatusOf(p) == IF "trade_status" \in DOMAIN p THEN p["trade_status"] ELSE ""

\* C21: verify_notify returns Ok only if the signature verified as true and
\* trade_status is TRADE_SUCCESS or TRADE_FINISHED; with a valid signature
\* and any other status, an absent one included, it returns an error that
\* names the status; a signature that does not verify is reported whatever
\* the status is.
C21_OkOnlyPaid ==
    \A t \in Tasks : (op[t] = "trade" /\ "sign" \in DOMAIN arg[t]) =>
        LET good == arg[t]["sign"] = SigText("K1", GatewayContent(arg[t]))
            paid == StatusOf(arg[t]) \in {"TRADE_SUCCESS", "TRADE_FINISHED"}
        IN  /\ res[t].kind = "Ok" => (good /\ paid)
            /\ (good /\ ~paid) =>
                  res[t] = Result("Err", "trade_status not success: "
                                             \o StatusOf(arg[t]))
            /\ ~good => res[t] = Result("Err", "invalid signature")
            /\ good <=> vf[t].verified = Result("Ok", "true")

\* one task has accepted a finished trade, the other has rejected a
\* gateway-signed notification of a trade that waits for the buyer
C21_Witness ==
    \E t \in Tasks : \E u \in Tasks \ {t} :
        /\ op[t] = "trade" /\ res[t].kind = "Ok"
        /\ StatusOf(arg[t]) = "TRADE_FINISHED"
        /\ op[u] = "trade" /\ vf[u].verified = Result("Ok", "true")
        /\ res[u] = Result("Err", "trade_status not success: WAIT_BUYER_PAY")

\* C22: a notification is accepted only if it has all of app_id,
\* out_trade_no, trade_no, trade_status and total_amount; a correctly
\* signed one that lacks any of them is rejected, never returned with an
\* empty value for the field.
C22_RequiredFields ==
    \A t \in Tasks : (op[t] = "trade" /\ res[t].kind = "Ok") =>
        /\ RequiredFields \subseteq DOMAIN arg[t]
        /\ \A k \in RequiredFields : vf[t].data[k] # ""

(********************* claims: the fixed-field strings ********************)
\* C23: the string of an outbound request is the five segments method,
\* path with query, timestamp, nonce, body, each followed by a newline;
\* the body segment is empty for GET; the path segment is what follows
\* scheme and host in the url, with ? and the query when there is one.
\* The string of an inbound notification is the three segments timestamp,
\* nonce, body, each followed by a newline.
C23_FixedFieldShapes ==
    \A t \in Tasks :
        /\ (op[t] \in {"post", "bootstrap"} /\ vf[t].sign_str # "") =>
              /\ vf[t].sign_str =
                    arg[t].method \o "\n" \o vf[t].path \o "\n1700000000\nnonce\n"
                        \o (IF arg[t].method = "GET" THEN "" ELSE arg[t].body)
                        \o "\n"
              /\ \/ arg[t].url = "https://api.mch.weixin.qq.com" \o vf[t].path
                 \/ /\ arg[t].url = "https://api.mch.weixin.qq.com"
                    /\ vf[t].path = "/"
        /\ ( /\ op[t] = "post" /\ arg[t].method = "GET"
             /\ arg[t].url = "https://api.mch.weixin.qq.com/v3/pay?id=1" ) =>
              vf[t].sign_str = "GET\n/v3/pay?id=1\n1700000000\nnonce\n\n"
        /\ ( /\ op[t] = "post" /\ arg[t].api = "mp"
             /\ arg[t].url =
                  "https://api.mch.weixin.qq.com/sandboxnew/v3/pay/transactions/jsapi" ) =>
              vf[t].sign_str =
                  "POST\n/sandboxnew/v3/pay/transactions/jsapi\n1700000000\nnonce\n{}\n"
        /\ op[t] = "bootstrap" =>
              vf[t].sign_str = "GET\n/v3/certificates\n1700000000\nnonce\n\n"
        /\ op[t] = "notice" =>
              /\ vf[t].sign_str =
                    (IF arg[t].ts = Absent THEN "" ELSE arg[t].ts) \o "\n"
                        \o (IF arg[t].nonce = Absent THEN "" ELSE arg[t].nonce)
                        \o "\n" \o arg[t].body \o "\n"
              /\ (arg[t].ts # Absent /\ arg[t].nonce # Absent) =>
                    (res[t] = Result("Ok", "true") <=> arg[t].sig = "good")

\* one task has signed a GET with a query and a body, the other has
\* verified a notification the gateway signed
C23_Witness ==
    \E t \in Tasks : \E u \in Tasks \ {t} :
        /\ op[t] = "post" /\ arg[t].method = "GET" /\ arg[t].body # "{}"
        /\ arg[t].url = "https://api.mch.weixin.qq.com/v3/pay?id=1"
        /\ res[t].kind = "Ok"
        /\ op[u] = "notice" /\ res[u] = Result("Ok", "true")
        /\ arg[u].body = "{}"

(******************* claims: certificate serial numbers *******************)
\* the name the gateway hashes for the issuers of the model: the name as
\* it is when it begins with CN, else its attributes from last to first
GatewayName(issuer) ==
    IF issuer[1] = AttrCN THEN "CN=Root, O=Ant, C=CN" ELSE "CN=Root,O=Ant,C=CN"

GatewayFingerprint(cert) ==
    "md5(" \o GatewayName(cert.issuer)
        \o (IF cert.serial = 255 THEN "255" ELSE "7") \o ")"

\* C24: the fingerprint of a certificate is the digest of its issuer name,
\* attributes reversed unless the name begins with CN, followed by the
\* serial number in decimal; the same file gives the same fingerprint.
C24_Fingerprint ==
    /\ \A t \in Tasks :
        (op[t] = "cert_sn" /\ arg[t].readable /\ arg[t].blocks[1].x509) =>
            res[t] = Result("Ok", GatewayFingerprint(arg[t].blocks[1]))
    /\ \A t \in Tasks : \A u \in Tasks :
        (op[t] = "cert_sn" /\ op[u] = "cert_sn" /\ arg[t] = arg[u]) =>
            res[t] = res[u]

\* the fingerprints of a certificate whose issuer begins with C and of
\* one whose issuer begins with CN have been computed
C24_Witness ==
    \E t \in Tasks : \E u \in Tasks \ {t} :
        /\ op[t] = "cert_sn" /\ res[t] = Result("Ok", "md5(CN=Root,O=Ant,C=CN255)")
        /\ op[u] = "cert_sn" /\ res[u] = Result("Ok", "md5(CN=Root, O=Ant, C=CN7)")

\* the certificates of a bundle that are signed with RSA
RsaSigned(blocks) ==
    SelectSeq(blocks, LAMBDA c : c.x509 /\ c.alg \in {Sha256WithRsa, Sha1WithRsa})

\* C25: the root fingerprint is the fingerprints of the RSA-signed
\* certificates of the bundle, in the order of the bundle, joined with _;
\* certificates signed with an elliptic curve and fragments that do not
\* parse add nothing; with no RSA-signed certificate it is an error.
C25_RootFingerprint ==
    \A t \in Tasks : (op[t] = "root_sn" /\ arg[t].readable /\ arg[t].utf8) =>
        LET kept == RsaSigned(arg[t].blocks) IN
        IF kept = <<>> THEN res[t].kind = "Err"
        ELSE res[t] = Result("Ok",
                 join([i \in 1..Len(kept) |-> GatewayFingerprint(kept[i])], "_"))

\* a bundle of an EC-signed and an RSA-signed certificate has given the
\* fingerprint of the second alone, and a bundle of two RSA-signed ones
\* has given both, joined
C25_Witness ==
    \E t \in Tasks : \E u \in Tasks \ {t} :
        /\ op[t] = "root_sn" /\ Len(arg[t].blocks) = 2
        /\ arg[t].blocks[1].alg = EcdsaWithSha256
        /\ res[t] = Result("Ok", "md5(CN=Root,O=Ant,C=CN7)")
        /\ op[u] = "root_sn"
        /\ res[u] = Result("Ok", "md5(CN=Root, O=Ant, C=CN255)_md5(CN=Root,O=Ant,C=CN7)")

\* C26: in certificate mode a serial number that cannot be computed is an
\* error of the request: nothing is signed or sent without app_cert_sn or
\* alipay_root_cert_sn.
C26_SerialErrorsPropagate ==
    \A t \in Tasks :
        ( /\ op[t] = "certreq"
          /\ arg[t].app_cert_path # <<>>
          /\ arg[t].alipay_root_cert_path # <<>> ) =>
            \/ /\ res[t].kind = "Err"
               /\ vf[t].sent = ""
            \/ {"app_cert_sn", "alipay_root_cert_sn"} \subseteq DOMAIN vf[t].signed

(********************** claims: the first success *************************)
\* C27: once an invocation returns Ok, retry_async returns that value:
\* there is no invocation and no wait after it, and the errors of the
\* invocations before it are not in what is returned.
C27_FirstSuccess ==
    \A t \in Tasks : (op[t] = "retry" /\ rt[t].okAt # 0) =>
        /\ pc[t] \in {"r_ret", "done"}
        /\ rt[t].calls = rt[t].okAt
        /\ Len(rt[t].waits) = rt[t].okAt - 1
        /\ Len(rt[t].errs) = rt[t].okAt - 1
        /\ rt[t].out = Result("Ok", "value")
        /\ pc[t] = "done" => res[t] = Result("Ok", "value")

\* a call has returned the value of its third invocation after two
\* failures and two waits
C27_Witness ==
    \E t \in Tasks :
        /\ op[t] = "retry" /\ pc[t] = "done" /\ rt[t].okAt = 3
        /\ rt[t].errs = <<"transport", "transport">>
        /\ rt[t].waits = <<200, 400>>
        /\ res[t] = Result("Ok", "value")

(********************** claims: the store after refresh *******************)
\* C28: whatever the gateway's response holds, refresh returns Ok or Err
\* and leaves the lock of the table usable: the lock is never poisoned and
\* no refresh and no get_by_serial aborts.
C28_StoreStaysUsable ==
    /\ ~poisoned
    /\ \A t \in Tasks :
        /\ rf[t].ret.kind # "Panic"
        /\ op[t] \in {"refresh", "get"} => res[t].kind # "Panic"

\* C29: every key of the table is a serial the gateway returned as a
\* string that is not empty: the table has no entry under the empty
\* serial, and a lookup of the empty serial finds nothing.
C29_NoEmptySerial ==
    /\ DOMAIN map \subseteq Serials
    /\ "" \notin DOMAIN map
    /\ \A t \in Tasks :
        (op[t] = "verify" /\ arg[t] = "") => vf[t].pub_pem.kind # "Some"

\* C30: each operation of WechatClient hands sign_and_post its base url
\* followed by the path of the operation: the url parses and, the private
\* key being good, the request is signed and sent.
C30_AbsoluteUrls ==
    \A t \in Tasks : (op[t] = "post" /\ arg[t].api \in WechatOps) =>
        /\ res[t] # Result("Err", "parse url")
        /\ vf[t].sign_str # ""
        /\ res[t] # Result("Err", "crypto") => vf[t].calls >= 1

====
